---- MODULE Spec2Model ----
(***************************************************************************)
(* Verification model of jsonlogviewer: the nav.Viewport cursor/scroll     *)
(* state machine and the index.Index line-offset table.                    *)
(*                                                                         *)
(* Go's int is modelled by the unbounded integers: every value here stays  *)
(* far below 2^63.  Go's integer division truncates toward zero (GoDiv).   *)
(* Bytes are their numeric values; data[i] of the source (0-based) is      *)
(* At(data, i) here.                                                       *)
(***************************************************************************)
EXTENDS Integers, Sequences, FiniteSets, TLC

VARIABLES
    vp,         \* the nav.Viewport struct: TotalLines, Height, Cursor, Offset
    navOp,      \* name of the Viewport operation that produced vp
    navArg,     \* its integer argument (0 when it takes none)
    navPre,     \* the Viewport as it was when that operation was called
    idx,        \* the *index.Index a constructor returned, or NilIndex
    ret,        \* what the last index call was given and what it returned
    closes,     \* number of Close calls made on the mmap reader
    pc,         \* where func main is: openSource, fallback, run, deferred, exited
    exitCode,   \* the exit status of the process once pc = "exited"
    opened,     \* number of mmap readers mmap.Open has returned
    gp,         \* the pool.GenSyncPool struct: pool (what sync.Pool holds), reset
    bufs,       \* the values of T that init has created, by identity
    created,    \* number of values init has created
    held,       \* values a Get has handed out and no Put has taken back
    putting,    \* values inside a Put call, between reset and pool.Put
    poolRet,    \* the last pool call and the value it returned or was given
    m,          \* the tui.Model struct (its idx is the variable idx)
    cmd,        \* the tea.Cmd the last Update returned
    msg,        \* the message of the last Update, or the call of View
    mPre,       \* the Model as it was when that call was made
    now,        \* time.Now(), in seconds since the program started
    ticks,      \* the times at which the tea.Tick commands in flight were issued
    view,       \* the Index.GetLine lookups the last View made
    calls       \* the FormatPretty calls in progress, by caller

navVars == <<vp, navOp, navArg, navPre>>
idxVars == <<idx, ret, closes>>
mainVars == <<pc, exitCode, opened>>
poolVars == <<gp, bufs, created, held, putting, poolRet>>
tuiVars == <<m, cmd, msg, mPre, now, ticks, view>>
parserVars == <<calls>>
vars == <<vp, navOp, navArg, navPre, idx, ret, closes, pc, exitCode, opened,
          gp, bufs, created, held, putting, poolRet,
          m, cmd, msg, mPre, now, ticks, view, calls>>

\* What the operations of one component leave alone.
notNavVars == <<idxVars, mainVars, poolVars, tuiVars, parserVars>>
notIdxVars == <<navVars, mainVars, poolVars, tuiVars, parserVars>>
notIdxMainVars == <<navVars, poolVars, tuiVars, parserVars>>
notPoolVars == <<navVars, idxVars, mainVars, tuiVars, parserVars>>
notTuiVars == <<navVars, idxVars, mainVars, poolVars, parserVars>>
notParserVars == <<navVars, idxVars, mainVars, tuiVars>>

(***************************************************************************)
(* Bounds of the model.                                                    *)
(***************************************************************************)
MaxLines == 6
MaxHeight == 4
MaxArg == 5
MaxPercent == 101
MaxPercentLines == 200
MaxLen == 4
MaxCloses == 2
MaxItems == 3
MaxTuiLines == 3
MaxDigits == 2
MaxDetail == 1
MinLeftWidth == 74
MaxLeftWidth == 75
MaxCountDigits == 19
MaxTime == 3
MaxCalls == 2
LineCap == 1000

LineArgs == (0 - 1)..MaxLines
HeightArgs == (0 - 1)..MaxHeight
PosHeightArgs == 1..MaxHeight
IntArgs == (0 - 1)..MaxArg
FieldArgs == (0 - 2)..(MaxLines + 2)
PercentLineArgs == 0..MaxPercentLines
PercentArgs == (0 - 1)..MaxPercent

Nil == "nil"

\* The nil *Index.
NilIndex == [nil |-> TRUE]

\* The bytes the index looks at ('\n', '\r'), and with them 'a' (97) as
\* the byte that is neither.
NL == 10
CR == 13
Bytes == {NL, CR, 97}
ByteSeqs == UNION {[1..k -> Bytes] : k \in 0..MaxLen}

\* Go's a / b for b > 0: the quotient truncated toward zero.
GoDiv(a, b) == IF a >= 0 THEN a \div b ELSE 0 - ((0 - a) \div b)

(***************************************************************************)
(* package nav                                                             *)
(***************************************************************************)

\* clamp without its last step, the clamp of Offset into the valid range.
clampNoOffsetRange(v) ==
    IF v.TotalLines < 1
    THEN [v EXCEPT !.Cursor = 1, !.Offset = 1]
    ELSE LET c1 == IF v.Cursor < 1 THEN 1 ELSE v.Cursor
             c == IF c1 > v.TotalLines THEN v.TotalLines ELSE c1
             o1 == IF c < v.Offset THEN c ELSE v.Offset
             m0 == c - v.Height + 1
             maxOffset == IF m0 < 1 THEN 1 ELSE m0
             o2 == IF c >= o1 + v.Height THEN maxOffset ELSE o1
         IN  [v EXCEPT !.Cursor = c, !.Offset = o2]

\* clamp that reveals a cursor below the window by scrolling one line.
clampScrollByOne(v) ==
    IF v.TotalLines < 1
    THEN [v EXCEPT !.Cursor = 1, !.Offset = 1]
    ELSE LET c1 == IF v.Cursor < 1 THEN 1 ELSE v.Cursor
             c == IF c1 > v.TotalLines THEN v.TotalLines ELSE c1
             o1 == IF c < v.Offset THEN c ELSE v.Offset
             o2 == IF c >= o1 + v.Height THEN o1 + 1 ELSE o1
             o3 == IF o2 < 1 THEN 1 ELSE o2
             mv0 == v.TotalLines - v.Height + 1
             maxValidOffset == IF mv0 < 1 THEN 1 ELSE mv0
             o4 == IF o3 > maxValidOffset THEN maxValidOffset ELSE o3
         IN  [v EXCEPT !.Cursor = c, !.Offset = o4]

clamp(v) ==
    IF v.TotalLines < 1
    THEN [v EXCEPT !.Cursor = 1, !.Offset = 1]
    ELSE LET c1 == IF v.Cursor < 1 THEN 1 ELSE v.Cursor
             c == IF c1 > v.TotalLines THEN v.TotalLines ELSE c1
             o1 == IF c < v.Offset THEN c ELSE v.Offset
             m0 == c - v.Height + 1
             maxOffset == IF m0 < 1 THEN 1 ELSE m0
             o2 == IF c >= o1 + v.Height THEN maxOffset ELSE o1
             o3 == IF o2 < 1 THEN 1 ELSE o2
             mv0 == v.TotalLines - v.Height + 1
             maxValidOffset == IF mv0 < 1 THEN 1 ELSE mv0
             o4 == IF o3 > maxValidOffset THEN maxValidOffset ELSE o3
         IN  [v EXCEPT !.Cursor = c, !.Offset = o4]

\* The struct literal of New, before its clamp.
NewLiteral(totalLines, height) ==
    [TotalLines |-> totalLines, Height |-> height, Cursor |-> 1, Offset |-> 1]

New(totalLines, height) == clamp(NewLiteral(totalLines, height))

SetHeight(v, height) ==
    clamp([v EXCEPT !.Height = IF height < 1 THEN 1 ELSE height])

SetTotalLines(v, totalLines) == clamp([v EXCEPT !.TotalLines = totalLines])

CursorRelative(v) == v.Cursor - v.Offset

\* VisibleRange that does not cap end at TotalLines.
VisibleRangeNoCap(v) ==
    [start |-> v.Offset, end |-> v.Offset + v.Height - 1]

VisibleRange(v) ==
    LET end0 == v.Offset + v.Height - 1
    IN  [start |-> v.Offset,
         end |-> IF end0 > v.TotalLines THEN v.TotalLines ELSE end0]

IsVisible(v, line) ==
    LET r == VisibleRange(v) IN line >= r.start /\ line <= r.end

\* Down without the n < 1 guard.
DownNoGuard(v, n) == clamp([v EXCEPT !.Cursor = v.Cursor + n])

Down(v, n) == IF n < 1 THEN v ELSE clamp([v EXCEPT !.Cursor = v.Cursor + n])

\* Up without the n < 1 guard.
UpNoGuard(v, n) == clamp([v EXCEPT !.Cursor = v.Cursor - n])

Up(v, n) == IF n < 1 THEN v ELSE clamp([v EXCEPT !.Cursor = v.Cursor - n])

\* PageDown without the final clamp.
PageDownNoClamp(v) ==
    [v EXCEPT !.Offset = v.Offset + v.Height, !.Cursor = v.Offset + v.Height]

PageDown(v) ==
    LET o == v.Offset + v.Height
    IN  clamp([v EXCEPT !.Offset = o, !.Cursor = o])

\* PageUp without the floor of the offset at 1.
PageUpNoFloor(v) ==
    LET o == v.Offset - v.Height
        c0 == o + v.Height - 1
        c == IF c0 > v.TotalLines THEN v.TotalLines ELSE c0
    IN  clamp([v EXCEPT !.Offset = o, !.Cursor = c])

PageUp(v) ==
    LET o0 == v.Offset - v.Height
        o == IF o0 < 1 THEN 1 ELSE o0
        c0 == o + v.Height - 1
        c == IF c0 > v.TotalLines THEN v.TotalLines ELSE c0
    IN  clamp([v EXCEPT !.Offset = o, !.Cursor = c])

\* Half a screen rounded up instead of down.
HalfRoundUp(v) == LET h == GoDiv(v.Height + 1, 2) IN IF h < 1 THEN 1 ELSE h

Half(v) == LET h == GoDiv(v.Height, 2) IN IF h < 1 THEN 1 ELSE h

HalfPageDown(v) ==
    clamp([v EXCEPT !.Offset = v.Offset + Half(v), !.Cursor = v.Cursor + Half(v)])

HalfPageUp(v) ==
    clamp([v EXCEPT !.Offset = v.Offset - Half(v), !.Cursor = v.Cursor - Half(v)])

\* ScrollDown that moves the cursor with the view.
ScrollDownWithCursor(v, n) ==
    IF n < 1 THEN v
    ELSE clamp([v EXCEPT !.Offset = v.Offset + n, !.Cursor = v.Cursor + n])

ScrollDown(v, n) == IF n < 1 THEN v ELSE clamp([v EXCEPT !.Offset = v.Offset + n])

ScrollUp(v, n) == IF n < 1 THEN v ELSE clamp([v EXCEPT !.Offset = v.Offset - n])

Goto(v, line) == clamp([v EXCEPT !.Cursor = line])

GotoTop(v) == Goto(v, 1)

GotoBottom(v) == Goto(v, v.TotalLines)

GotoLineTop(v) == clamp([v EXCEPT !.Cursor = v.Offset])

\* GotoLineMiddle with half the height rounded up.
GotoLineMiddleRoundUp(v) ==
    LET c0 == v.Offset + GoDiv(v.Height + 1, 2)
        c == IF c0 > v.TotalLines THEN v.TotalLines ELSE c0
    IN  clamp([v EXCEPT !.Cursor = c])

GotoLineMiddle(v) ==
    LET c0 == v.Offset + GoDiv(v.Height, 2)
        c == IF c0 > v.TotalLines THEN v.TotalLines ELSE c0
    IN  clamp([v EXCEPT !.Cursor = c])

\* GotoLineBottom that targets the line below the window.
GotoLineBottomPastWindow(v) ==
    LET c0 == v.Offset + v.Height
        c == IF c0 > v.TotalLines THEN v.TotalLines ELSE c0
    IN  clamp([v EXCEPT !.Cursor = c])

GotoLineBottom(v) ==
    LET c0 == v.Offset + v.Height - 1
        c == IF c0 > v.TotalLines THEN v.TotalLines ELSE c0
    IN  clamp([v EXCEPT !.Cursor = c])

\* JumpToPercent that takes a percent below 1 as 0.
JumpToPercentFromZero(v, percent) ==
    LET p1 == IF percent < 1 THEN 0 ELSE percent
        p == IF p1 > 100 THEN 100 ELSE p1
        l0 == GoDiv(v.TotalLines * p, 100)
        l1 == IF l0 < 1 THEN 1 ELSE l0
        line == IF l1 > v.TotalLines THEN v.TotalLines ELSE l1
    IN  Goto(v, line)

\* JumpToPercent that cuts the percent at 99.
JumpToPercentCap99(v, percent) ==
    LET p1 == IF percent < 1 THEN 1 ELSE percent
        p == IF p1 > 99 THEN 99 ELSE p1
        l0 == GoDiv(v.TotalLines * p, 100)
        l1 == IF l0 < 1 THEN 1 ELSE l0
        line == IF l1 > v.TotalLines THEN v.TotalLines ELSE l1
    IN  Goto(v, line)

\* JumpToPercent that counts the percent from the end of the file.
JumpToPercentFromEnd(v, percent) ==
    LET p1 == IF percent < 1 THEN 1 ELSE percent
        p == IF p1 > 100 THEN 100 ELSE p1
        l0 == GoDiv(v.TotalLines * (100 - p), 100)
        l1 == IF l0 < 1 THEN 1 ELSE l0
        line == IF l1 > v.TotalLines THEN v.TotalLines ELSE l1
    IN  Goto(v, line)

JumpToPercent(v, percent) ==
    LET p1 == IF percent < 1 THEN 1 ELSE percent
        p == IF p1 > 100 THEN 100 ELSE p1
        l0 == GoDiv(v.TotalLines * p, 100)
        l1 == IF l0 < 1 THEN 1 ELSE l0
        line == IF l1 > v.TotalLines THEN v.TotalLines ELSE l1
    IN  Goto(v, line)

\* ClickAt that does not cut the row at Height-1.
ClickAtNoRowCap(v, relativeRow) ==
    LET r == IF relativeRow < 0 THEN 0 ELSE relativeRow
    IN  clamp([v EXCEPT !.Cursor = v.Offset + r])

ClickAt(v, relativeRow) ==
    LET r1 == IF relativeRow < 0 THEN 0 ELSE relativeRow
        r == IF r1 >= v.Height THEN v.Height - 1 ELSE r1
    IN  clamp([v EXCEPT !.Cursor = v.Offset + r])

(***************************************************************************)
(* package index                                                           *)
(***************************************************************************)
ErrInvalidLine == "invalid line number"
ErrEmptyFile == "file is empty"
ErrMmap == "failed to mmap file"
ErrReadMmap == "failed to read mmap data"
ErrReadData == "failed to read data"
ErrOpenFile == "failed to open file"

\* data[i] of the source, i counted from 0.
At(data, i) == data[i + 1]

\* data[start:end] of the source.
Slice(data, start, end) == SubSeq(data, start + 1, end)

\* The scan loop of buildOffsets from position i on.
RECURSIVE scanNewlines(_, _, _)
scanNewlines(data, i, offsets) ==
    IF i >= Len(data)
    THEN offsets
    ELSE scanNewlines(data, i + 1,
            IF At(data, i) = NL /\ i + 1 < Len(data)
            THEN Append(offsets, i + 1)
            ELSE offsets)

\* buildOffsets that records a line start after every newline, the last one
\* included, and keeps it.
RECURSIVE scanEveryNewline(_, _, _)
scanEveryNewline(data, i, offsets) ==
    IF i >= Len(data)
    THEN offsets
    ELSE scanEveryNewline(data, i + 1,
            IF At(data, i) = NL THEN Append(offsets, i + 1) ELSE offsets)

buildOffsetsKeepTrailing(ix) ==
    IF Len(ix.data) = 0
    THEN [idx |-> ix, err |-> ErrEmptyFile]
    ELSE [idx |-> [ix EXCEPT !.offsets =
                      scanEveryNewline(ix.data, 0, Append(ix.offsets, 0))],
          err |-> Nil]

\* buildOffsets that drops the last line start whenever data ends in a newline.
buildOffsetsDropLast(ix) ==
    IF Len(ix.data) = 0
    THEN [idx |-> ix, err |-> ErrEmptyFile]
    ELSE LET scanned == scanNewlines(ix.data, 0, Append(ix.offsets, 0))
             k == Len(scanned)
         IN  [idx |-> [ix EXCEPT !.offsets =
                          IF k > 1 /\ At(ix.data, Len(ix.data) - 1) = NL
                          THEN SubSeq(scanned, 1, k - 1)
                          ELSE scanned],
              err |-> Nil]

\* buildOffsets without the empty-data check.
buildOffsetsAcceptEmpty(ix) ==
    LET scanned == scanNewlines(ix.data, 0, Append(ix.offsets, 0))
        k == Len(scanned)
    IN  [idx |-> [ix EXCEPT !.offsets =
                     IF k > 1 /\ scanned[k] >= Len(ix.data)
                     THEN SubSeq(scanned, 1, k - 1)
                     ELSE scanned],
         err |-> Nil]

\* The index after buildOffsets, and the error it returns.
buildOffsets(ix) ==
    IF Len(ix.data) = 0
    THEN [idx |-> ix, err |-> ErrEmptyFile]
    ELSE LET scanned == scanNewlines(ix.data, 0, Append(ix.offsets, 0))
             k == Len(scanned)
         IN  [idx |-> [ix EXCEPT !.offsets =
                          IF k > 1 /\ scanned[k] >= Len(ix.data)
                          THEN SubSeq(scanned, 1, k - 1)
                          ELSE scanned],
              err |-> Nil]

\* The Index literal of Open and OpenReader, before buildOffsets.
IndexLiteral(data, reader, name) ==
    [data |-> data, offsets |-> <<>>, reader |-> reader, name |-> name]

\* Open(path): mapOK and readOK are the outcomes of mmap.Open and ReadAt,
\* data the content of the file.  closed counts the reader.Close calls made.
Open(path, data, mapOK, readOK) ==
    IF ~mapOK
    THEN [idx |-> NilIndex, err |-> ErrMmap, closed |-> 0]
    ELSE IF ~readOK
    THEN [idx |-> NilIndex, err |-> ErrReadMmap, closed |-> 1]
    ELSE LET b == buildOffsets(IndexLiteral(data, "mmap", path))
         IN  IF b.err # Nil
             THEN [idx |-> NilIndex, err |-> b.err, closed |-> 1]
             ELSE [idx |-> b.idx, err |-> Nil, closed |-> 0]

\* OpenReader(r, name): readOK is the outcome of io.ReadAll, data what it read.
OpenReader(name, data, readOK) ==
    IF ~readOK
    THEN [idx |-> NilIndex, err |-> ErrReadData, closed |-> 0]
    ELSE LET b == buildOffsets(IndexLiteral(data, Nil, name))
         IN  IF b.err # Nil
             THEN [idx |-> NilIndex, err |-> b.err, closed |-> 0]
             ELSE [idx |-> b.idx, err |-> Nil, closed |-> 0]

\* OpenFile(path): openOK is the outcome of os.Open.
OpenFile(path, data, openOK, readOK) ==
    IF ~openOK
    THEN [idx |-> NilIndex, err |-> ErrOpenFile, closed |-> 0]
    ELSE OpenReader(path, data, readOK)

LineCount(ix) == Len(ix.offsets)

\* GetLine whose range check lets n = len(offsets)+1 and n = 0 through
\* (they then read the last and the first line).
GetLineLooseCheck(ix, n) ==
    IF n < 0 \/ n > Len(ix.offsets) + 1
    THEN [val |-> <<>>, err |-> ErrInvalidLine]
    ELSE LET k == IF n < 1 THEN 1 ELSE IF n > Len(ix.offsets) THEN Len(ix.offsets) ELSE n
             start == ix.offsets[k]
             end == IF k < Len(ix.offsets) THEN ix.offsets[k + 1] - 1 ELSE Len(ix.data)
         IN  [val |-> Slice(ix.data, start, end), err |-> Nil]

\* GetLine(n): the bytes returned (a nil slice is the empty sequence) and
\* the error.
GetLine(ix, n) ==
    IF n < 1 \/ n > Len(ix.offsets)
    THEN [val |-> <<>>, err |-> ErrInvalidLine]
    ELSE LET start == ix.offsets[n]
             end0 == IF n < Len(ix.offsets)
                     THEN LET e == ix.offsets[n + 1]
                          IN  IF e > 0 /\ At(ix.data, e - 1) = NL THEN e - 1 ELSE e
                     ELSE Len(ix.data)
             end == IF end0 > start /\ At(ix.data, end0 - 1) = CR
                    THEN end0 - 1
                    ELSE end0
         IN  [val |-> Slice(ix.data, start, end), err |-> Nil]

\* GetLineString(n): the string returned ("" on error) and the error.
GetLineString(ix, n) ==
    LET r == GetLine(ix, n)
    IN  IF r.err # Nil THEN [val |-> <<>>, err |-> r.err] ELSE r

Name(ix) == ix.name

\* Close(): the number of reader.Close calls it makes.
Close(ix) == IF ix.reader # Nil THEN 1 ELSE 0

(***************************************************************************)
(* package pool.  A value of T is known by its identity 1..MaxItems and    *)
(* has a content: dirty says it is not in the state init and reset leave,  *)
(* resets counts the calls of reset on it and wrote says a caller wrote    *)
(* into it, both since a Get last handed it out.                           *)
(***************************************************************************)
\* What init returns, and what reset leaves of the content.
InitValue == [dirty |-> FALSE, resets |-> 0, wrote |-> FALSE]

\* New(init, reset): reset is "reset", or Nil for a nil function.
PoolNew(reset) == [pool |-> {}, reset |-> reset]

\* Put whose reset is skipped.
PutResetSkipped(p, b, x) == b

\* The first half of Put(x): reset(x) when the pool has a reset function.
PutReset(p, b, x) ==
    IF p.reset # Nil
    THEN [b EXCEPT ![x] = [@ EXCEPT !.dirty = FALSE, !.resets = @ + 1]]
    ELSE b

\* The second half of Put(x): pool.Put(x).
PutStore(p, x) == [p EXCEPT !.pool = @ \cup {x}]

\* Get() served from what sync.Pool holds: x leaves the pool.
GetPooled(p, x) == [p EXCEPT !.pool = @ \ {x}]

(***************************************************************************)
(* package tui.  A message is a record of its type and fields; a key is    *)
(* its tea.KeyMsg.String(); a string of digits is the sequence of its      *)
(* characters.  Times are whole seconds.                                   *)
(***************************************************************************)
resizeTimeout == 2

\* The commands Update returns: nil, tea.Quit, and the tea.Tick that sends a
\* resizeTimeoutMsg once resizeTimeout has passed.
TeaQuit == "tea.Quit"
TeaTick == "tea.Tick"

Message(type, key, width, height, action, button) ==
    [type |-> type, key |-> key, Width |-> width, Height |-> height,
     Action |-> action, Button |-> button]

KeyMsg(key) == Message("KeyMsg", key, 0, 0, Nil, Nil)
WindowSizeMsg(width, height) == Message("WindowSizeMsg", Nil, width, height, Nil, Nil)
MouseMsg(action, button) == Message("MouseMsg", Nil, 0, 0, action, button)
ResizeTimeoutMsg == Message("resizeTimeoutMsg", Nil, 0, 0, Nil, Nil)
ViewCall == Message("View", Nil, 0, 0, Nil, Nil)
NoMsg == Message("none", Nil, 0, 0, Nil, Nil)

Digits == {"0", "1", "2", "3", "4", "5", "6", "7", "8", "9"}

DigitValue(d) ==
    CASE d = "0" -> 0 [] d = "1" -> 1 [] d = "2" -> 2 [] d = "3" -> 3
      [] d = "4" -> 4 [] d = "5" -> 5 [] d = "6" -> 6 [] d = "7" -> 7
      [] d = "8" -> 8 [] d = "9" -> 9

\* The digits of the largest int, 9223372036854775807.
MaxIntDigits == <<9, 2, 2, 3, 3, 7, 2, 0, 3, 6, 8, 5, 4, 7, 7, 5, 8, 0, 7>>

\* A string of digits without its leading zeros.
RECURSIVE StripZeros(_)
StripZeros(s) ==
    IF s # <<>> /\ s[1] = "0" THEN StripZeros(Tail(s)) ELSE s

\* Whether the digits s, as long as MaxIntDigits, stand for a larger number.
RECURSIVE ExceedsFrom(_, _)
ExceedsFrom(s, i) ==
    IF i > Len(s) THEN FALSE
    ELSE IF DigitValue(s[i]) # MaxIntDigits[i]
         THEN DigitValue(s[i]) > MaxIntDigits[i]
         ELSE ExceedsFrom(s, i + 1)

\* strconv.ParseInt's range error: the digits do not fit an int.
OutOfRange(s) ==
    LET t == StripZeros(s)
    IN  \/ Len(t) > Len(MaxIntDigits)
        \/ Len(t) = Len(MaxIntDigits) /\ ExceedsFrom(t, 1)

\* The number the digits stand for; LineCap stands for every number from
\* LineCap on, all of them beyond the last line of every index.
RECURSIVE DecimalValue(_)
DecimalValue(s) ==
    IF s = <<>> THEN 0
    ELSE LET n == 10 * DecimalValue(SubSeq(s, 1, Len(s) - 1)) + DigitValue(s[Len(s)])
         IN  IF n > LineCap THEN LineCap ELSE n

ErrRange == "value out of range"

\* fmt.Sscanf(s, "%d", &line) on a string of digits: the error, and line,
\* which stays 0 when the number does not fit an int.
Sscanf(s) ==
    IF OutOfRange(s)
    THEN [err |-> ErrRange, line |-> 0]
    ELSE [err |-> Nil, line |-> DecimalValue(s)]

\* New with a viewport of one line more than the index has.
TuiNewExtraLine(ix) ==
    [viewport |-> New(LineCount(ix) + 1, 20),
     detailOffset |-> 0,
     width |-> 0,
     height |-> 0,
     leftWidth |-> 80,
     showHelp |-> FALSE,
     quitting |-> FALSE,
     confirmExit |-> FALSE,
     pendingNumber |-> <<>>,
     lastG |-> FALSE,
     resizeMode |-> FALSE,
     resizeTimer |-> 0,
     lastCursor |-> 0]

\* New(idx, version): the Model, with the zero values of the fields New does
\* not set.
TuiNew(ix) ==
    [viewport |-> New(LineCount(ix), 20),
     detailOffset |-> 0,
     width |-> 0,
     height |-> 0,
     leftWidth |-> 80,
     showHelp |-> FALSE,
     quitting |-> FALSE,
     confirmExit |-> FALSE,
     pendingNumber |-> <<>>,
     lastG |-> FALSE,
     resizeMode |-> FALSE,
     resizeTimer |-> 0,
     lastCursor |-> 0]

\* What Update and handleKey return: the model and the command.
Returned(mm, c) == [m |-> mm, cmd |-> c]

enterResizeMode(mm, t) ==
    Returned([mm EXCEPT !.resizeMode = TRUE, !.resizeTimer = t], TeaTick)

\* resetResizeTimer that schedules no new tick.
resetResizeTimerNoTick(mm, t) ==
    Returned([mm EXCEPT !.resizeTimer = t], Nil)

resetResizeTimer(mm, t) ==
    Returned([mm EXCEPT !.resizeTimer = t], TeaTick)

\* The cases of handleKey that move the cursor and clear the pending count.
KeyMoved(mm, v) ==
    Returned([mm EXCEPT !.viewport = v, !.pendingNumber = <<>>,
                        !.lastG = FALSE, !.resizeMode = FALSE], Nil)

\* The cases of handleKey that scroll and leave the pending count.
KeyScrolled(mm, v) ==
    Returned([mm EXCEPT !.viewport = v, !.lastG = FALSE, !.resizeMode = FALSE], Nil)

\* A confirmation block in which a key other than y leaves the prompt up.
confirmKeyKeepsPrompt(mm, key) ==
    IF key \in {"y", "Y"}
    THEN Returned([mm EXCEPT !.quitting = TRUE], TeaQuit)
    ELSE Returned(mm, Nil)

\* handleKey while the confirmation prompt is up: y and Y quit, every other
\* key cancels the prompt and is dropped.
confirmKey(mm, key) ==
    IF key \in {"y", "Y"}
    THEN Returned([mm EXCEPT !.quitting = TRUE], TeaQuit)
    ELSE Returned([mm EXCEPT !.confirmExit = FALSE], Nil)

\* handleKey, case "q".
keyQ(mm) ==
    IF mm.showHelp
    THEN Returned([mm EXCEPT !.showHelp = FALSE], Nil)
    ELSE Returned([mm EXCEPT !.quitting = TRUE], TeaQuit)

\* An "esc" case that closes help and opens the prompt in one key.
keyEscPromptOverHelp(mm) ==
    Returned([mm EXCEPT !.showHelp = FALSE, !.confirmExit = TRUE], Nil)

\* handleKey, case "esc".
keyEsc(mm) ==
    IF mm.showHelp
    THEN Returned([mm EXCEPT !.showHelp = FALSE], Nil)
    ELSE Returned([mm EXCEPT !.confirmExit = TRUE], Nil)

\* handleKey, case "g": the second g of gg goes to the top, and then to the
\* pending count's line.
keyGG(mm) ==
    LET v1 == IF mm.lastG THEN GotoTop(mm.viewport) ELSE mm.viewport
        g == ~mm.lastG
        counted == mm.pendingNumber # <<>> /\ ~g
        sc == Sscanf(mm.pendingNumber)
        v2 == IF counted /\ sc.err = Nil /\ sc.line > 0
              THEN Goto(v1, sc.line) ELSE v1
    IN  Returned([mm EXCEPT !.viewport = v2, !.lastG = g,
                            !.resizeMode = FALSE,
                            !.pendingNumber =
                                IF counted THEN <<>> ELSE mm.pendingNumber],
                 Nil)

\* A "G" case that ignores the pending count.
keyGNoCount(mm) ==
    Returned([mm EXCEPT !.viewport = GotoBottom(mm.viewport),
                        !.pendingNumber = <<>>,
                        !.lastG = FALSE, !.resizeMode = FALSE], Nil)

\* handleKey, case "G".
keyG(mm) ==
    LET sc == Sscanf(mm.pendingNumber)
        v == IF mm.pendingNumber # <<>>
             THEN IF sc.err = Nil /\ sc.line > 0
                  THEN Goto(mm.viewport, sc.line) ELSE mm.viewport
             ELSE GotoBottom(mm.viewport)
    IN  Returned([mm EXCEPT !.viewport = v, !.pendingNumber = <<>>,
                            !.lastG = FALSE, !.resizeMode = FALSE], Nil)

\* handleKey, case ">": in resize mode the left pane grows by a column, up
\* to width-40.
keyGreater(mm, t) ==
    IF mm.resizeMode
    THEN resetResizeTimer(
             [mm EXCEPT !.leftWidth =
                  IF mm.leftWidth < mm.width - 40
                  THEN mm.leftWidth + 1 ELSE mm.leftWidth], t)
    ELSE Returned([mm EXCEPT !.lastG = FALSE], Nil)

\* A "<" case without the floor of 40 columns.
keyLessNoFloor(mm, t) ==
    IF mm.resizeMode
    THEN resetResizeTimer([mm EXCEPT !.leftWidth = mm.leftWidth - 1], t)
    ELSE Returned([mm EXCEPT !.lastG = FALSE], Nil)

\* handleKey, case "<": in resize mode the left pane shrinks by a column,
\* down to 40.
keyLess(mm, t) ==
    IF mm.resizeMode
    THEN resetResizeTimer(
             [mm EXCEPT !.leftWidth =
                  IF mm.leftWidth > 40
                  THEN mm.leftWidth - 1 ELSE mm.leftWidth], t)
    ELSE Returned([mm EXCEPT !.lastG = FALSE], Nil)

\* handleKey(msg) at time t, key = msg.String().
handleKey(mm, key, t) ==
    IF mm.confirmExit
    THEN confirmKey(mm, key)
    ELSE CASE key = "q" -> keyQ(mm)
           [] key = "esc" -> keyEsc(mm)
           [] key \in {"f1", "?"} ->
                Returned([mm EXCEPT !.showHelp = ~mm.showHelp], Nil)
           [] key \in {"up", "k"} -> KeyMoved(mm, Up(mm.viewport, 1))
           [] key \in {"down", "j"} -> KeyMoved(mm, Down(mm.viewport, 1))
           [] key = "pgup" -> KeyMoved(mm, PageUp(mm.viewport))
           [] key = "pgdown" -> KeyMoved(mm, PageDown(mm.viewport))
           [] key = "home" -> KeyMoved(mm, GotoTop(mm.viewport))
           [] key = "end" -> KeyMoved(mm, GotoBottom(mm.viewport))
           [] key = "g" -> keyGG(mm)
           [] key = "G" -> keyG(mm)
           [] key = "ctrl+e" -> KeyScrolled(mm, ScrollDown(mm.viewport, 1))
           [] key = "ctrl+y" -> KeyScrolled(mm, ScrollUp(mm.viewport, 1))
           [] key = "ctrl+b" -> KeyScrolled(mm, PageUp(mm.viewport))
           [] key = "ctrl+f" -> KeyScrolled(mm, PageDown(mm.viewport))
           [] key = "ctrl+u" -> KeyScrolled(mm, HalfPageUp(mm.viewport))
           [] key = "ctrl+d" -> KeyScrolled(mm, HalfPageDown(mm.viewport))
           [] key = "H" -> KeyMoved(mm, GotoLineTop(mm.viewport))
           [] key = "M" -> KeyMoved(mm, GotoLineMiddle(mm.viewport))
           [] key = "L" -> KeyMoved(mm, GotoLineBottom(mm.viewport))
           [] key = "ctrl+w" -> enterResizeMode(mm, t)
           [] key = ">" -> keyGreater(mm, t)
           [] key = "<" -> keyLess(mm, t)
           [] key = "h" ->
                Returned([mm EXCEPT !.detailOffset =
                                        IF mm.detailOffset > 0
                                        THEN mm.detailOffset - 1 ELSE mm.detailOffset,
                                    !.lastG = FALSE, !.resizeMode = FALSE], Nil)
           [] key = "l" ->
                Returned([mm EXCEPT !.detailOffset = mm.detailOffset + 1,
                                    !.lastG = FALSE, !.resizeMode = FALSE], Nil)
           [] key \in Digits ->
                Returned([mm EXCEPT !.pendingNumber = Append(mm.pendingNumber, key),
                                    !.lastG = FALSE], Nil)
           [] OTHER -> Returned(mm, Nil)

\* handleMouse(msg): the wheel scrolls by 3 when the action is a motion.
handleMouse(mm, message) ==
    IF message.Action = "MouseActionMotion"
    THEN CASE message.Button = "MouseButtonWheelUp" ->
                Returned([mm EXCEPT !.viewport = ScrollUp(mm.viewport, 3)], Nil)
           [] message.Button = "MouseButtonWheelDown" ->
                Returned([mm EXCEPT !.viewport = ScrollDown(mm.viewport, 3)], Nil)
           [] OTHER -> Returned(mm, Nil)
    ELSE Returned(mm, Nil)

\* A timeout case that ends resize mode whatever the time.
resizeTimedOutUnchecked(mm, t) ==
    Returned(IF mm.resizeMode THEN [mm EXCEPT !.resizeMode = FALSE] ELSE mm, Nil)

\* Update, case resizeTimeoutMsg, at time t: time.Since(m.resizeTimer) is
\* t - resizeTimer.
resizeTimedOut(mm, t) ==
    Returned(IF mm.resizeMode /\ t - mm.resizeTimer >= resizeTimeout
             THEN [mm EXCEPT !.resizeMode = FALSE]
             ELSE mm, Nil)

\* Update(msg) at time t.
Update(mm, message, t) ==
    CASE message.type = "resizeTimeoutMsg" -> resizeTimedOut(mm, t)
      [] message.type = "WindowSizeMsg" ->
            LET c0 == message.Height - 4
                contentHeight == IF c0 < 1 THEN 1 ELSE c0
            IN  Returned([mm EXCEPT !.width = message.Width,
                                    !.height = message.Height,
                                    !.viewport = SetHeight(mm.viewport, contentHeight),
                                    !.leftWidth = 74], Nil)
      [] message.type = "KeyMsg" -> handleKey(mm, message.key, t)
      [] message.type = "MouseMsg" -> handleMouse(mm, message)
      [] OTHER -> Returned(mm, Nil)

\* The line numbers renderTable passes to idx.GetLine.
renderTable(mm, ix) ==
    IF LineCount(ix) = 0 THEN {}
    ELSE LET r == VisibleRange(mm.viewport)
         IN  {i \in r.start..r.end : i <= LineCount(ix)}

\* The line number renderDetail passes to idx.GetLine.
renderDetailLookup(mm, ix) ==
    IF LineCount(ix) = 0 THEN {} ELSE {mm.viewport.Cursor}

\* detailOffset after renderDetail, totalLines being the number of lines of
\* the formatted record.
renderDetail(mm, ix, totalLines) ==
    IF LineCount(ix) = 0 \/ GetLine(ix, mm.viewport.Cursor).err # Nil
    THEN mm
    ELSE LET d1 == IF mm.detailOffset >= totalLines
                   THEN totalLines - 1 ELSE mm.detailOffset
             d == IF d1 < 0 THEN 0 ELSE d1
         IN  [mm EXCEPT !.detailOffset = d]

\* View(): the Model it leaves, and the lookups it made.
View(mm, ix, totalLines) ==
    IF mm.quitting \/ mm.width = 0 \/ mm.height = 0
    THEN [m |-> mm, lookups |-> {}]
    ELSE LET m1 == IF mm.viewport.Cursor # mm.lastCursor
                   THEN [mm EXCEPT !.detailOffset = 0,
                                   !.lastCursor = mm.viewport.Cursor]
                   ELSE mm
         IN  [m |-> renderDetail(m1, ix, totalLines),
              lookups |-> renderTable(m1, ix) \cup renderDetailLookup(m1, ix)]

(***************************************************************************)
(* Index actions.  One source is opened per run: a constructor is called   *)
(* once, and the calls on the Index follow if it returned one.             *)
(***************************************************************************)
\* ret: the call (op), the outcome of its file operations (io), the bytes a
\* constructor was given (data), the line number given or the count returned
\* (n), the bytes or the name returned (val, name) and the error (err).
Ret(op, io, data, n, val, name, err) ==
    [op |-> op, io |-> io, data |-> data, n |-> n, val |-> val,
     name |-> name, err |-> err]

NoCall == Ret("none", "none", <<>>, 0, <<>>, Nil, Nil)

Constructed(op, io, data, r) ==
    /\ idx' = r.idx
    /\ ret' = Ret(op, io, data, 0, <<>>, Nil, r.err)
    /\ closes' = closes + r.closed
    /\ UNCHANGED notIdxVars

DoOpen ==
    /\ idx = NilIndex
    /\ ret = NoCall
    /\ \E data \in ByteSeqs, mapOK \in BOOLEAN, readOK \in BOOLEAN :
          Constructed("Open",
                      IF ~mapOK THEN "mapfail" ELSE IF ~readOK THEN "readfail" ELSE "ok",
                      data, Open("app.log", data, mapOK, readOK))

DoOpenReader ==
    /\ idx = NilIndex
    /\ ret = NoCall
    /\ \E data \in ByteSeqs, readOK \in BOOLEAN :
          Constructed("OpenReader", IF readOK THEN "ok" ELSE "readfail",
                      data, OpenReader("stdin", data, readOK))

DoOpenFile ==
    /\ idx = NilIndex
    /\ ret = NoCall
    /\ \E data \in ByteSeqs, openOK \in BOOLEAN, readOK \in BOOLEAN :
          Constructed("OpenFile",
                      IF ~openOK THEN "openfail" ELSE IF ~readOK THEN "readfail" ELSE "ok",
                      data, OpenFile("app.log", data, openOK, readOK))

LineArgsOfIndex == (0 - 1)..(MaxLen + 2)

DoGetLine ==
    /\ idx # NilIndex
    /\ \E n \in LineArgsOfIndex :
          LET r == GetLine(idx, n)
          IN  ret' = Ret("GetLine", "none", <<>>, n, r.val, Nil, r.err)
    /\ UNCHANGED <<idx, closes, notIdxVars>>

DoGetLineString ==
    /\ idx # NilIndex
    /\ \E n \in LineArgsOfIndex :
          LET r == GetLineString(idx, n)
          IN  ret' = Ret("GetLineString", "none", <<>>, n, r.val, Nil, r.err)
    /\ UNCHANGED <<idx, closes, notIdxVars>>

DoLineCount ==
    /\ idx # NilIndex
    /\ ret' = Ret("LineCount", "none", <<>>, LineCount(idx), <<>>, Nil, Nil)
    /\ UNCHANGED <<idx, closes, notIdxVars>>

DoName ==
    /\ idx # NilIndex
    /\ ret' = Ret("Name", "none", <<>>, 0, <<>>, Name(idx), Nil)
    /\ UNCHANGED <<idx, closes, notIdxVars>>

DoClose ==
    /\ idx # NilIndex
    /\ closes + Close(idx) <= MaxCloses
    /\ closes' = closes + Close(idx)
    /\ ret' = Ret("Close", "none", <<>>, 0, <<>>, Nil, Nil)
    /\ UNCHANGED <<idx, notIdxVars>>

IdxNext ==
    \/ DoOpen \/ DoOpenReader \/ DoOpenFile
    \/ DoGetLine \/ DoGetLineString \/ DoLineCount \/ DoName \/ DoClose


(***************************************************************************)
(* Viewport actions: one per public operation.                             *)
(***************************************************************************)
NavHist(op, arg) ==
    /\ navOp' = op
    /\ navArg' = arg
    /\ navPre' = vp
    /\ UNCHANGED notNavVars

DoSetHeight ==
    \E h \in HeightArgs : vp' = SetHeight(vp, h) /\ NavHist("SetHeight", h)

DoSetTotalLines ==
    \E n \in LineArgs : vp' = SetTotalLines(vp, n) /\ NavHist("SetTotalLines", n)

DoDown == \E n \in IntArgs : vp' = Down(vp, n) /\ NavHist("Down", n)

DoUp == \E n \in IntArgs : vp' = Up(vp, n) /\ NavHist("Up", n)

DoPageDown == vp' = PageDown(vp) /\ NavHist("PageDown", 0)

DoPageUp == vp' = PageUp(vp) /\ NavHist("PageUp", 0)

DoHalfPageDown == vp' = HalfPageDown(vp) /\ NavHist("HalfPageDown", 0)

DoHalfPageUp == vp' = HalfPageUp(vp) /\ NavHist("HalfPageUp", 0)

DoScrollDown == \E n \in IntArgs : vp' = ScrollDown(vp, n) /\ NavHist("ScrollDown", n)

DoScrollUp == \E n \in IntArgs : vp' = ScrollUp(vp, n) /\ NavHist("ScrollUp", n)

DoGoto == \E line \in IntArgs : vp' = Goto(vp, line) /\ NavHist("Goto", line)

DoGotoTop == vp' = GotoTop(vp) /\ NavHist("GotoTop", 0)

DoGotoBottom == vp' = GotoBottom(vp) /\ NavHist("GotoBottom", 0)

DoGotoLineTop == vp' = GotoLineTop(vp) /\ NavHist("GotoLineTop", 0)

DoGotoLineMiddle == vp' = GotoLineMiddle(vp) /\ NavHist("GotoLineMiddle", 0)

DoGotoLineBottom == vp' = GotoLineBottom(vp) /\ NavHist("GotoLineBottom", 0)

DoJumpToPercent ==
    \E p \in PercentArgs : vp' = JumpToPercent(vp, p) /\ NavHist("JumpToPercent", p)

DoClickAt == \E r \in IntArgs : vp' = ClickAt(vp, r) /\ NavHist("ClickAt", r)

NavNext ==
    \/ DoSetHeight \/ DoSetTotalLines
    \/ DoDown \/ DoUp \/ DoPageDown \/ DoPageUp
    \/ DoHalfPageDown \/ DoHalfPageUp \/ DoScrollDown \/ DoScrollUp
    \/ DoGoto \/ DoGotoTop \/ DoGotoBottom
    \/ DoGotoLineTop \/ DoGotoLineMiddle \/ DoGotoLineBottom
    \/ DoJumpToPercent \/ DoClickAt

NavInitWith(heights) ==
    \E tl \in LineArgs, h \in heights :
        /\ vp = New(tl, h)
        /\ navOp = "New"
        /\ navArg = h
        /\ navPre = NewLiteral(tl, h)

NavIdle ==
    /\ vp = New(1, 1)
    /\ navOp = "New"
    /\ navArg = 1
    /\ navPre = NewLiteral(1, 1)

IdxIdle ==
    /\ idx = NilIndex
    /\ ret = NoCall
    /\ closes = 0

\* poolRet: the call (op), the value it returned or was given (item), whether
\* init made it for this call (fresh), and the content the value had.
PoolRet(op, x, fresh, b) ==
    [op |-> op, item |-> x, fresh |-> fresh,
     resets |-> b.resets, wrote |-> b.wrote, dirty |-> b.dirty]

\* The pool as New(init, reset) returns it.
PoolStart(reset) ==
    /\ gp = PoolNew(reset)
    /\ bufs = [x \in 1..MaxItems |-> InitValue]
    /\ created = 0
    /\ held = {}
    /\ putting = {}
    /\ poolRet = PoolRet("New", 0, FALSE, InitValue)

PoolIdle == PoolStart("reset")

\* view: the line numbers the last View passed to GetLine, and whether one of
\* them got ErrInvalidLine.
Viewed(lookups, ix) ==
    [lookups |-> lookups,
     invalid |-> \E i \in lookups : GetLine(ix, i).err # Nil]

\* The TUI as New leaves it for the index ix, at time 0.
TuiStart(ix) ==
    /\ m = TuiNew(ix)
    /\ cmd = Nil
    /\ msg = NoMsg
    /\ mPre = TuiNew(ix)
    /\ now = 0
    /\ ticks = {}
    /\ view = Viewed({}, ix)

\* The index of a source of k lines "a".
RECURSIVE LinesOfA(_)
LinesOfA(k) == IF k <= 1 THEN <<97>> ELSE LinesOfA(k - 1) \o <<NL, 97>>
SourceOf(k) == OpenReader("stdin", LinesOfA(k), TRUE).idx

TuiIdle == TuiStart(SourceOf(1))

\* A caller that is not inside FormatPretty.
NotCalling ==
    [pc |-> "idle", raw |-> Nil, buf |-> 0, gets |-> 0, puts |-> 0, err |-> Nil]

Callers == 1..MaxCalls

\* No FormatPretty call made yet.
ParserIdle == calls = [c \in Callers |-> NotCalling]

\* func main not started.
MainIdle ==
    /\ pc = "idle"
    /\ exitCode = 0
    /\ opened = 0

\* New(totalLines, height) with any integers, then any public operations.
NavInit == NavInitWith(HeightArgs) /\ IdxIdle /\ MainIdle /\ PoolIdle /\ TuiIdle /\ ParserIdle
NavSpec == NavInit /\ [][NavNext]_vars

\* The same, for a Viewport constructed with height >= 1.
NavInitPos == NavInitWith(PosHeightArgs) /\ IdxIdle /\ MainIdle /\ PoolIdle /\ TuiIdle /\ ParserIdle
NavSpecPos == NavInitPos /\ [][NavNext]_vars

\* JumpToPercent as a function of totalLines and percent: a Viewport of up to
\* MaxPercentLines lines as New leaves it, then one JumpToPercent.
PercentInit ==
    /\ \E tl \in PercentLineArgs, h \in HeightArgs :
          /\ vp = New(tl, h)
          /\ navOp = "New"
          /\ navArg = h
          /\ navPre = NewLiteral(tl, h)
    /\ IdxIdle
    /\ MainIdle
    /\ PoolIdle
    /\ TuiIdle
    /\ ParserIdle
PercentNext == navOp = "New" /\ DoJumpToPercent
PercentSpec == PercentInit /\ [][PercentNext]_vars

\* clamp applied to a Viewport whose exported fields hold any integers, with
\* Height >= 1 and TotalLines >= 1.
DoClamp == vp' = clamp(vp) /\ NavHist("clamp", 0)

ClampInit ==
    /\ \E tl \in 1..MaxLines, h \in PosHeightArgs, c \in FieldArgs, o \in FieldArgs :
          /\ vp = [TotalLines |-> tl, Height |-> h, Cursor |-> c, Offset |-> o]
          /\ navOp = "literal"
          /\ navArg = 0
          /\ navPre = vp
    /\ IdxIdle
    /\ MainIdle
    /\ PoolIdle
    /\ TuiIdle
    /\ ParserIdle
ClampNext == navOp = "literal" /\ DoClamp
ClampSpec == ClampInit /\ [][ClampNext]_vars

\* One source opened by Open, OpenReader or OpenFile, then any calls on it.
IdxInit == IdxIdle /\ NavIdle /\ MainIdle /\ PoolIdle /\ TuiIdle /\ ParserIdle
IdxSpec == IdxInit /\ [][IdxNext]_vars

(***************************************************************************)
(* Pool actions.  Callers keep to the pool's contract: a value is Put by   *)
(* the caller that holds it, who does not touch it afterwards.  sync.Pool  *)
(* may serve a Get from init although it holds values, and may drop the    *)
(* values it holds.                                                        *)
(***************************************************************************)
\* A value handed out: the counts since the last hand-out start again.
HandedOut(b) == [b EXCEPT !.resets = 0, !.wrote = FALSE]

DoGetNew ==
    /\ created < MaxItems
    /\ created' = created + 1
    /\ bufs' = [bufs EXCEPT ![created + 1] = HandedOut(InitValue)]
    /\ held' = held \cup {created + 1}
    /\ poolRet' = PoolRet("Get", created + 1, TRUE, InitValue)
    /\ UNCHANGED <<gp, putting, notPoolVars>>

DoGetPooled ==
    \E x \in gp.pool :
        /\ gp' = GetPooled(gp, x)
        /\ bufs' = [bufs EXCEPT ![x] = HandedOut(@)]
        /\ held' = held \cup {x}
        /\ poolRet' = PoolRet("Get", x, FALSE, bufs[x])
        /\ UNCHANGED <<created, putting, notPoolVars>>

\* The caller that holds x writes into it.
DoWrite ==
    \E x \in held :
        /\ bufs' = [bufs EXCEPT ![x] = [@ EXCEPT !.dirty = TRUE, !.wrote = TRUE]]
        /\ poolRet' = PoolRet("Write", x, FALSE, bufs'[x])
        /\ UNCHANGED <<gp, created, held, putting, notPoolVars>>

DoPutReset ==
    \E x \in held :
        /\ bufs' = PutReset(gp, bufs, x)
        /\ held' = held \ {x}
        /\ putting' = putting \cup {x}
        /\ poolRet' = PoolRet("Put", x, FALSE, bufs'[x])
        /\ UNCHANGED <<gp, created, notPoolVars>>

DoPutStore ==
    \E x \in putting :
        /\ gp' = PutStore(gp, x)
        /\ putting' = putting \ {x}
        /\ poolRet' = PoolRet("PutDone", x, FALSE, bufs[x])
        /\ UNCHANGED <<bufs, created, held, notPoolVars>>

\* sync.Pool drops a value it holds (garbage collection).
DoPoolDrop ==
    \E x \in gp.pool :
        /\ gp' = GetPooled(gp, x)
        /\ poolRet' = PoolRet("Drop", x, FALSE, bufs[x])
        /\ UNCHANGED <<bufs, created, held, putting, notPoolVars>>

PoolNext ==
    \/ DoGetNew \/ DoGetPooled \/ DoWrite
    \/ DoPutReset \/ DoPutStore \/ DoPoolDrop

\* New(init, reset) with a reset function or with nil, then any calls.
PoolInit ==
    /\ \E reset \in {"reset", Nil} : PoolStart(reset)
    /\ NavIdle
    /\ IdxIdle
    /\ MainIdle
    /\ TuiIdle
    /\ ParserIdle
PoolSpec == PoolInit /\ [][PoolNext]_vars

(***************************************************************************)
(* package parser: FormatPretty, called by several callers at once on one  *)
(* Parser.  An input is one of five kinds: empty; not JSON for gjson;      *)
(* valid, which json.Indent formats; lenient, which gjson accepts and      *)
(* json.Indent formats only from gjson's raw value; and unformattable,     *)
(* which gjson accepts and json.Indent rejects both times.                 *)
(***************************************************************************)
Raws == {"empty", "invalid", "valid", "lenient", "unformattable"}

ErrEmptyInput == "empty input"
ErrInvalidJSON == "invalid JSON"
ErrFormat == "failed to format JSON"

\* The error FormatPretty returns before it takes a buffer, or Nil.
FormatRejects(raw) ==
    CASE raw = "empty" -> ErrEmptyInput
      [] raw = "invalid" -> ErrInvalidJSON
      [] OTHER -> Nil

\* The error of the two json.Indent attempts, or Nil.
FormatIndents(raw) == IF raw = "unformattable" THEN ErrFormat ELSE Nil

\* A FormatPretty whose Put is not deferred: it runs on success only.
PutOnSuccessOnly(err) == IF err = Nil THEN "put" ELSE "return"

\* Where FormatPretty goes once json.Indent is through: the deferred Put
\* runs whatever the error.
DeferredPut(err) == "put"

FormatStep(c, call) ==
    /\ calls' = [calls EXCEPT ![c] = call]
    /\ UNCHANGED notParserVars

\* FormatPretty(raw) is called: it returns an error on an empty or invalid
\* input, and else goes on to bufferPool.Get().
DoFormatPretty ==
    \E c \in Callers, raw \in Raws :
        /\ calls[c].pc = "idle"
        /\ FormatStep(c, [NotCalling EXCEPT
                               !.raw = raw,
                               !.err = FormatRejects(raw),
                               !.pc = IF FormatRejects(raw) # Nil
                                      THEN "return" ELSE "get"])
        /\ UNCHANGED poolVars

\* bufferPool.Get() served by init.
DoFormatGetNew ==
    \E c \in Callers :
        /\ calls[c].pc = "get"
        /\ created < MaxItems
        /\ created' = created + 1
        /\ bufs' = [bufs EXCEPT ![created + 1] = HandedOut(InitValue)]
        /\ held' = held \cup {created + 1}
        /\ poolRet' = PoolRet("Get", created + 1, TRUE, InitValue)
        /\ FormatStep(c, [calls[c] EXCEPT !.pc = "indent", !.buf = created + 1,
                                          !.gets = @ + 1])
        /\ UNCHANGED <<gp, putting>>

\* bufferPool.Get() served from the pool.
DoFormatGetPooled ==
    \E c \in Callers, x \in gp.pool :
        /\ calls[c].pc = "get"
        /\ gp' = GetPooled(gp, x)
        /\ bufs' = [bufs EXCEPT ![x] = HandedOut(@)]
        /\ held' = held \cup {x}
        /\ poolRet' = PoolRet("Get", x, FALSE, bufs[x])
        /\ FormatStep(c, [calls[c] EXCEPT !.pc = "indent", !.buf = x,
                                          !.gets = @ + 1])
        /\ UNCHANGED <<created, putting>>

\* json.Indent writes into the buffer, once or twice, and FormatPretty
\* returns: the deferred Put is next.
DoFormatIndent ==
    \E c \in Callers :
        /\ calls[c].pc = "indent"
        /\ bufs' = [bufs EXCEPT ![calls[c].buf] =
                        [@ EXCEPT !.dirty = TRUE, !.wrote = TRUE]]
        /\ poolRet' = PoolRet("Write", calls[c].buf, FALSE, bufs'[calls[c].buf])
        /\ FormatStep(c, [calls[c] EXCEPT
                               !.err = FormatIndents(calls[c].raw),
                               !.pc = DeferredPut(FormatIndents(calls[c].raw))])
        /\ UNCHANGED <<gp, created, held, putting>>

\* The deferred bufferPool.Put(buf), first half: reset.
DoFormatPutReset ==
    \E c \in Callers :
        /\ calls[c].pc = "put"
        /\ bufs' = PutReset(gp, bufs, calls[c].buf)
        /\ held' = held \ {calls[c].buf}
        /\ putting' = putting \cup {calls[c].buf}
        /\ poolRet' = PoolRet("Put", calls[c].buf, FALSE, bufs'[calls[c].buf])
        /\ FormatStep(c, [calls[c] EXCEPT !.pc = "store"])
        /\ UNCHANGED <<gp, created>>

\* The deferred bufferPool.Put(buf), second half: the buffer is back in the
\* pool and the call is about to return.
DoFormatPutStore ==
    \E c \in Callers :
        /\ calls[c].pc = "store"
        /\ gp' = PutStore(gp, calls[c].buf)
        /\ putting' = putting \ {calls[c].buf}
        /\ poolRet' = PoolRet("PutDone", calls[c].buf, FALSE, bufs[calls[c].buf])
        /\ FormatStep(c, [calls[c] EXCEPT !.pc = "return", !.puts = @ + 1])
        /\ UNCHANGED <<bufs, created, held>>

\* The call has returned; its caller may call again.
DoFormatReturn ==
    \E c \in Callers :
        /\ calls[c].pc = "return"
        /\ FormatStep(c, [calls[c] EXCEPT !.pc = "returned"])
        /\ UNCHANGED poolVars

DoFormatAgain ==
    \E c \in Callers :
        /\ calls[c].pc = "returned"
        /\ FormatStep(c, NotCalling)
        /\ UNCHANGED poolVars

\* sync.Pool drops a buffer it holds.
DoFormatPoolDrop ==
    \E x \in gp.pool :
        /\ gp' = GetPooled(gp, x)
        /\ poolRet' = PoolRet("Drop", x, FALSE, bufs[x])
        /\ UNCHANGED <<bufs, created, held, putting, calls, notParserVars>>

ParserNext ==
    \/ DoFormatPretty \/ DoFormatGetNew \/ DoFormatGetPooled
    \/ DoFormatIndent \/ DoFormatPutReset \/ DoFormatPutStore
    \/ DoFormatReturn \/ DoFormatAgain \/ DoFormatPoolDrop

\* parser.New(): a pool with init and reset; then any calls of FormatPretty.
ParserInit ==
    /\ ParserIdle
    /\ PoolStart("reset")
    /\ NavIdle
    /\ IdxIdle
    /\ MainIdle
    /\ TuiIdle
ParserSpec == ParserInit /\ [][ParserNext]_vars

(***************************************************************************)
(* func main: open the source, run the TUI program on it, close it.        *)
(***************************************************************************)
ErrNoInput == "no input provided: specify a file or pipe data via stdin"
ErrNotFound == "file not found"
ErrNoAccess == "cannot access file"
ErrIsDir == "path is a directory"

\* main after openSource returned: os.Exit(1) on an error, else it goes on
\* to register the deferred Close and to run the program.
MainOpened(err) ==
    IF err # Nil
    THEN pc' = "exited" /\ exitCode' = 1
    ELSE pc' = "run" /\ exitCode' = exitCode

\* openSource returns an error before it opens anything: no file given and
\* nothing piped in, or the path missing, inaccessible or a directory.
MainRejected ==
    /\ pc = "openSource"
    /\ \E err \in {ErrNoInput, ErrNotFound, ErrNoAccess, ErrIsDir} :
          /\ ret' = Ret("openSource", "none", <<>>, 0, <<>>, Nil, err)
          /\ MainOpened(err)
    /\ UNCHANGED <<idx, closes, opened, notIdxMainVars>>

\* openSource with no file path: index.OpenReader(os.Stdin, "stdin").
MainStdin ==
    /\ pc = "openSource"
    /\ \E data \in ByteSeqs, readOK \in BOOLEAN :
          LET r == OpenReader("stdin", data, readOK)
          IN  /\ idx' = r.idx
              /\ ret' = Ret("OpenReader", IF readOK THEN "ok" ELSE "readfail",
                            data, 0, <<>>, Nil, r.err)
              /\ closes' = closes + r.closed
              /\ MainOpened(r.err)
    /\ UNCHANGED <<opened, notIdxMainVars>>

\* openSource with a file path: index.Open(path) first; when it fails
\* openSource goes on to index.OpenFile.
MainOpen ==
    /\ pc = "openSource"
    /\ \E data \in ByteSeqs, mapOK \in BOOLEAN, readOK \in BOOLEAN :
          LET r == Open("app.log", data, mapOK, readOK)
          IN  /\ idx' = r.idx
              /\ ret' = Ret("Open",
                            IF ~mapOK THEN "mapfail"
                            ELSE IF ~readOK THEN "readfail" ELSE "ok",
                            data, 0, <<>>, Nil, r.err)
              /\ closes' = closes + r.closed
              /\ opened' = opened + (IF mapOK THEN 1 ELSE 0)
              /\ pc' = IF r.err # Nil THEN "fallback" ELSE "run"
    /\ UNCHANGED <<exitCode, notIdxMainVars>>

\* The fallback of openSource: index.OpenFile on the same file.
MainOpenFile ==
    /\ pc = "fallback"
    /\ \E openOK \in BOOLEAN, readOK \in BOOLEAN :
          LET r == OpenFile("app.log", ret.data, openOK, readOK)
          IN  /\ idx' = r.idx
              /\ ret' = Ret("OpenFile",
                            IF ~openOK THEN "openfail"
                            ELSE IF ~readOK THEN "readfail" ELSE "ok",
                            ret.data, 0, <<>>, Nil, r.err)
              /\ closes' = closes + r.closed
              /\ MainOpened(r.err)
    /\ UNCHANGED <<opened, notIdxMainVars>>

\* While the program runs, main and the TUI read the index.
MainReads ==
    /\ pc = "run"
    /\ (DoLineCount \/ DoName \/ DoGetLine)

\* p.Run() returns an error: main calls os.Exit(1), which ends the process
\* without running deferred functions.
MainRunFails ==
    /\ pc = "run"
    /\ pc' = "exited"
    /\ exitCode' = 1
    /\ UNCHANGED <<idx, ret, closes, opened, notIdxMainVars>>

\* p.Run() returns without error: main returns.
MainRunReturns ==
    /\ pc = "run"
    /\ pc' = "deferred"
    /\ UNCHANGED <<idx, ret, closes, exitCode, opened, notIdxMainVars>>

\* main's deferred function: idx.Close().
MainDeferredClose ==
    /\ pc = "deferred"
    /\ closes' = closes + Close(idx)
    /\ ret' = Ret("Close", "none", <<>>, 0, <<>>, Nil, Nil)
    /\ pc' = "exited"
    /\ exitCode' = 0
    /\ UNCHANGED <<idx, opened, notIdxMainVars>>

MainNext ==
    \/ MainRejected \/ MainStdin \/ MainOpen \/ MainOpenFile
    \/ MainReads \/ MainRunFails \/ MainRunReturns \/ MainDeferredClose

MainInit ==
    /\ pc = "openSource"
    /\ exitCode = 0
    /\ opened = 0
    /\ IdxIdle
    /\ NavIdle
    /\ PoolIdle
    /\ TuiIdle
    /\ ParserIdle
MainSpec == MainInit /\ [][MainNext]_vars

(***************************************************************************)
(* TUI actions: the messages the bubbletea runtime hands to Update, and    *)
(* its calls of View.  ticks holds the times at which a tea.Tick was       *)
(* issued.                                                                 *)
(***************************************************************************)
Keys ==
    {"q", "esc", "y", "n", "f1", "up", "down", "pgdown", "g", "G", "ctrl+e",
     "ctrl+d", "H", "L", "ctrl+w", ">", "<", "2", "x"}
WindowWidths == {116}
WindowHeights == {6}
MouseActions == {"MouseActionPress", "MouseActionMotion"}
MouseButtons == {"MouseButtonWheelUp", "MouseButtonWheelDown"}

\* The keys the model leaves out so that its counters stay bounded.
KeyInBounds(key) ==
    /\ (key \in Digits /\ ~m.confirmExit) => Len(m.pendingNumber) < MaxDigits
    /\ (key = "l" /\ ~m.confirmExit) => m.detailOffset < MaxDetail
    /\ (key = "<" /\ ~m.confirmExit /\ m.resizeMode) => m.leftWidth > MinLeftWidth
    /\ (key = ">" /\ ~m.confirmExit /\ m.resizeMode) => m.leftWidth < MaxLeftWidth

\* The runtime delivers messages and renders until Update has returned
\* tea.Quit.
Running == cmd # TeaQuit

Updated(message, r) ==
    /\ m' = r.m
    /\ cmd' = r.cmd
    /\ msg' = message
    /\ mPre' = m
    /\ ticks' = IF r.cmd = TeaTick THEN ticks \cup {now} ELSE ticks
    /\ UNCHANGED <<now, view, notTuiVars>>

DoKey ==
    \E key \in Keys :
        /\ Running
        /\ KeyInBounds(key)
        /\ Updated(KeyMsg(key), Update(m, KeyMsg(key), now))

DoWindowSize ==
    \E w \in WindowWidths, h \in WindowHeights :
        /\ Running
        /\ Updated(WindowSizeMsg(w, h), Update(m, WindowSizeMsg(w, h), now))

DoMouse ==
    \E a \in MouseActions, b \in MouseButtons :
        /\ Running
        /\ Updated(MouseMsg(a, b), Update(m, MouseMsg(a, b), now))

\* The runtime renders: View(), for a record whose formatted form has
\* totalLines lines.
DoView ==
    \E totalLines \in 1..MaxDetail :
        /\ Running
        /\ m' = View(m, idx, totalLines).m
        /\ view' = Viewed(View(m, idx, totalLines).lookups, idx)
        /\ msg' = ViewCall
        /\ mPre' = m
        /\ UNCHANGED <<cmd, now, ticks, notTuiVars>>

TuiNext == DoKey \/ DoWindowSize \/ DoMouse \/ DoView

\* tui.New on an index of 1..MaxTuiLines lines, then any messages.
TuiInit ==
    /\ \E k \in 1..MaxTuiLines :
          /\ idx = SourceOf(k)
          /\ TuiStart(SourceOf(k))
    /\ ret = NoCall
    /\ closes = 0
    /\ NavIdle
    /\ MainIdle
    /\ PoolIdle
    /\ ParserIdle
TuiSpec == TuiInit /\ [][TuiNext]_vars

\* The keys of a count, of g g and of G: a short count of 2s or a long one of
\* 9s.
CountKeys == {"2", "9", "g", "G", "down"}

CountKeyInBounds(key) ==
    /\ key = "2" => Len(m.pendingNumber) < MaxDigits
    /\ key = "9" => Len(m.pendingNumber) < MaxCountDigits

DoCountKey ==
    \E key \in CountKeys :
        /\ Running
        /\ CountKeyInBounds(key)
        /\ Updated(KeyMsg(key), Update(m, KeyMsg(key), now))

\* tui.New on an index of 1..MaxTuiLines lines, then digits, g, G and j.
CountSpec == TuiInit /\ [][DoCountKey]_vars

(***************************************************************************)
(* Pane resizing with the clock running.  A tea.Tick issued at time t      *)
(* delivers its resizeTimeoutMsg at t + resizeTimeout or later; ticks      *)
(* holds the times of the ticks not yet delivered.                         *)
(***************************************************************************)
ResizeKeys == {"ctrl+w", "<", ">", "down", "esc"}

\* Whether handleKey answers the key with a tea.Tick.
SchedulesTick(key) ==
    /\ ~m.confirmExit
    /\ key = "ctrl+w" \/ (key \in {"<", ">"} /\ m.resizeMode)

\* The model's clock stops at MaxTime: a tick is scheduled only while its
\* delivery time is within it.
TickInBounds(key) == SchedulesTick(key) => now + resizeTimeout <= MaxTime

DoResizeKey ==
    \E key \in ResizeKeys :
        /\ Running
        /\ TickInBounds(key)
        /\ Updated(KeyMsg(key), Update(m, KeyMsg(key), now))

\* The tick issued at t delivers its message; resizeTimeout has passed
\* since t.
DeliverTick(t) ==
    /\ t \in ticks
    /\ now - t >= resizeTimeout
    /\ m' = Update(m, ResizeTimeoutMsg, now).m
    /\ cmd' = Update(m, ResizeTimeoutMsg, now).cmd
    /\ msg' = ResizeTimeoutMsg
    /\ mPre' = m
    /\ ticks' = ticks \ {t}
    /\ UNCHANGED <<now, view, notTuiVars>>

DoResizeTimeout ==
    \E t \in 0..MaxTime :
        /\ Running
        /\ DeliverTick(t)

DoTimePasses ==
    /\ now < MaxTime
    /\ now' = now + 1
    /\ UNCHANGED <<m, cmd, msg, mPre, ticks, view, notTuiVars>>

ResizeNext == DoResizeKey \/ DoWindowSize \/ DoResizeTimeout \/ DoTimePasses

\* tui.New, then resize keys, window sizes, timeouts and the passing of time.
ResizeSpec == TuiInit /\ [][ResizeNext]_vars

\* The clock advances, and the runtime delivers every tick it was asked for.
ResizeFairness ==
    /\ WF_vars(DoTimePasses)
    /\ \A t \in 0..MaxTime : WF_vars(Running /\ DeliverTick(t))
ResizeLiveSpec == ResizeSpec /\ ResizeFairness


(***************************************************************************)
(* Claims about the Viewport.                                              *)
(***************************************************************************)
Max(a, b) == IF a >= b THEN a ELSE b

\* C1: after New with any integer arguments and any sequence of public
\* operations, TotalLines >= 1 implies 1 <= Cursor <= TotalLines and
\* Offset <= Cursor <= Offset+Height-1 (0 <= CursorRelative() <= Height-1),
\* and TotalLines < 1 implies Cursor = Offset = 1.
C1_ViewportInvariant ==
    IF vp.TotalLines >= 1
    THEN /\ 1 <= vp.Cursor /\ vp.Cursor <= vp.TotalLines
         /\ vp.Offset <= vp.Cursor /\ vp.Cursor <= vp.Offset + vp.Height - 1
         /\ 0 <= CursorRelative(vp) /\ CursorRelative(vp) <= vp.Height - 1
    ELSE vp.Cursor = 1 /\ vp.Offset = 1

\* C3: in every state reachable from New(totalLines, height) with
\* height >= 1, Offset lies in [1, max(1, TotalLines-Height+1)].
C3_OffsetInRange ==
    /\ 1 <= vp.Offset
    /\ vp.Offset <= Max(1, vp.TotalLines - vp.Height + 1)

\* A PageDown that asked for an offset past the last valid screen and was
\* held at TotalLines-Height+1 > 1.
C3_Witness ==
    /\ navOp = "PageDown"
    /\ vp.TotalLines > vp.Height
    /\ navPre.Offset + navPre.Height > vp.TotalLines - vp.Height + 1
    /\ vp.Offset = vp.TotalLines - vp.Height + 1

\* C4: Height >= 1 in every reachable state (New and SetHeight called with
\* a height < 1 leave Height >= 1), and no navigation command changes Height.
C4_HeightAtLeastOne ==
    /\ vp.Height >= 1
    /\ navOp \notin {"New", "SetHeight"} => vp.Height = navPre.Height

\* C10: after SetHeight(h) for any integer h (Height becomes max(h,1)) and
\* after SetTotalLines(n) for any n >= 1, Cursor is in [1, TotalLines] and
\* IsVisible(Cursor) holds; SetTotalLines(n) with 1 <= n < Cursor moves Cursor
\* to n; SetHeight never changes Cursor.  The SetHeight part is read for a
\* viewport that has lines (TotalLines >= 1), where [1, TotalLines] is not
\* empty.
C10_Reconfiguration ==
    /\ (navOp = "SetHeight" /\ vp.TotalLines >= 1) =>
          /\ vp.Height = Max(navArg, 1)
          /\ 1 <= vp.Cursor /\ vp.Cursor <= vp.TotalLines
          /\ IsVisible(vp, vp.Cursor)
          /\ vp.Cursor = navPre.Cursor
    /\ (navOp = "SetTotalLines" /\ navArg >= 1) =>
          /\ 1 <= vp.Cursor /\ vp.Cursor <= vp.TotalLines
          /\ IsVisible(vp, vp.Cursor)
          /\ navArg < navPre.Cursor => vp.Cursor = navArg

(***************************************************************************)
(* Claims about the Index.                                                 *)
(***************************************************************************)
Lookups == {"GetLine", "GetLineString"}

\* The reference split of d into lines at each newline, every line kept with
\* its terminator; no empty last line when d ends in a newline.
RECURSIVE RefSplit(_, _, _, _)
RefSplit(d, i, cur, acc) ==
    IF i > Len(d)
    THEN IF cur = <<>> THEN acc ELSE Append(acc, cur)
    ELSE IF d[i] = NL
         THEN RefSplit(d, i + 1, <<>>, Append(acc, Append(cur, d[i])))
         ELSE RefSplit(d, i + 1, Append(cur, d[i]), acc)

RefLines(d) == RefSplit(d, 1, <<>>, <<>>)

EndsWith(line, b) == Len(line) >= 1 /\ line[Len(line)] = b

DropLast(line) == SubSeq(line, 1, Len(line) - 1)

\* A line without its terminating newline and one carriage return before it.
Strip(line) ==
    LET a == IF EndsWith(line, NL) THEN DropLast(line) ELSE line
    IN  IF EndsWith(a, CR) THEN DropLast(a) ELSE a

NewlineCount(d) == Cardinality({i \in 1..Len(d) : d[i] = NL})

\* C2: for every non-empty d and every i in 1..LineCount(), GetLine(i) is the
\* i-th line of the reference split of d with its terminating newline and one
\* carriage return before it removed, the last line of data that ends with a
\* newline included.
C2_RoundTrip ==
    (idx # NilIndex /\ ret.op \in Lookups /\ 1 <= ret.n /\ ret.n <= LineCount(idx)) =>
        /\ ret.err = Nil
        /\ ret.n <= Len(RefLines(idx.data))
        /\ ret.val = Strip(RefLines(idx.data)[ret.n])

\* C5, the table: len(offsets) = LineCount() >= 1, offsets[0] = 0, offsets
\* strictly increasing and below len(data), and every later offset is the
\* position right after a newline.
C5_Table ==
    idx # NilIndex =>
        LET o == idx.offsets
            d == idx.data
        IN  /\ Len(o) = LineCount(idx)
            /\ Len(o) >= 1
            /\ o[1] = 0
            /\ \A i \in 1..(Len(o) - 1) : o[i] < o[i + 1]
            /\ \A i \in 1..Len(o) : 0 <= o[i] /\ o[i] < Len(d)
            /\ \A i \in 2..Len(o) : At(d, o[i] - 1) = NL

\* C5, the frame: GetLine, GetLineString, LineCount and Name leave the table
\* as it is.
C5_Frame ==
    (idx # NilIndex /\ ret'.op \in Lookups \cup {"LineCount", "Name"}) =>
        /\ idx' # NilIndex
        /\ idx'.offsets = idx.offsets

\* C5: the offset-table invariant holds after construction, and the table is
\* never changed by GetLine, GetLineString, LineCount or Name.
C5_OffsetTable == [](C5_Table) /\ [][C5_Frame]_vars

\* An index of two lines ("a\n\r\n") on which a lookup has been made.
C5_Witness ==
    /\ idx # NilIndex
    /\ idx.data = <<97, NL, CR, NL>>
    /\ idx.offsets = <<0, 2>>
    /\ ret.op = "GetLine"

\* C6: LineCount() is the number of newline bytes of d, plus 1 if the last
\* byte of d is not a newline.
C6_LineCounting ==
    idx # NilIndex =>
        LineCount(idx) = NewlineCount(idx.data)
                         + (IF EndsWith(idx.data, NL) THEN 0 ELSE 1)

\* "\n\n\n" has been opened and LineCount() returned 3.
C6_Witness ==
    /\ idx # NilIndex
    /\ idx.data = <<NL, NL, NL>>
    /\ ret.op = "LineCount"
    /\ ret.n = 3

\* C7: Open on a zero-length file and OpenReader on a stream of zero bytes
\* return ErrEmptyFile and a nil Index, and every Index returned has
\* LineCount() >= 1.
C7_EmptyRejected ==
    /\ (ret.op \in {"Open", "OpenReader"} /\ ret.io = "ok" /\ ret.data = <<>>) =>
          (ret.err = ErrEmptyFile /\ idx = NilIndex)
    /\ idx # NilIndex => LineCount(idx) >= 1

\* Open has been called on a file of zero bytes.
C7_Witness ==
    /\ ret.op = "Open"
    /\ ret.io = "ok"
    /\ ret.data = <<>>
    /\ ret.err = ErrEmptyFile
    /\ idx = NilIndex

\* C8, the result: a lookup returns ErrInvalidLine exactly when n < 1 or
\* n > LineCount(), with no data; otherwise it succeeds.
C8_Result ==
    (idx # NilIndex /\ ret.op \in Lookups) =>
        /\ (ret.err = ErrInvalidLine) <=> (ret.n < 1 \/ ret.n > LineCount(idx))
        /\ ret.err = ErrInvalidLine => ret.val = <<>>
        /\ ret.err # ErrInvalidLine => ret.err = Nil

\* C8, the frame: a lookup, failed or not, leaves data and offsets as they were.
C8_Frame ==
    (idx # NilIndex /\ ret'.op \in Lookups) => idx' = idx

\* C8: GetLine(n) and GetLineString(n) return ErrInvalidLine exactly when
\* n < 1 or n > LineCount(), return no data then and leave the index
\* unchanged; every n in [1, LineCount()] succeeds, also after a failed lookup.
C8_InvalidLine == [](C8_Result) /\ [][C8_Frame]_vars

\* A lookup of line LineCount()+1 of a two-line index has failed.
C8_Witness ==
    /\ idx # NilIndex
    /\ LineCount(idx) = 2
    /\ ret.op = "GetLine"
    /\ ret.n = 3
    /\ ret.err = ErrInvalidLine

\* C9: for every valid line n terminated by "\r\n" (or by '\r' at the end of
\* data), GetLine(n) is the line without that terminator: the terminating
\* '\r' is not returned, and every byte before it is.
C9_CarriageReturn ==
    (idx # NilIndex /\ ret.op \in Lookups /\ 1 <= ret.n /\ ret.n <= LineCount(idx)
       /\ ret.n <= Len(RefLines(idx.data))) =>
        LET line == RefLines(idx.data)[ret.n]
        IN  /\ (EndsWith(line, NL) /\ EndsWith(DropLast(line), CR)) =>
                   ret.val = DropLast(DropLast(line))
            /\ EndsWith(line, CR) => ret.val = DropLast(line)

(***************************************************************************)
(* Further claims about the Viewport.                                      *)
(***************************************************************************)
Min(a, b) == IF a <= b THEN a ELSE b

\* The last valid screen: max(1, TotalLines-Height+1).
LastScreen(v) == Max(1, v.TotalLines - v.Height + 1)

\* The viewport invariant of the data model: height >= 1, the cursor in
\* [1, TotalLines] and inside the window, the offset in [1, LastScreen]; with
\* no lines, cursor and offset at 1.
ViewportInvariant(v) ==
    /\ v.Height >= 1
    /\ IF v.TotalLines >= 1
       THEN /\ 1 <= v.Cursor /\ v.Cursor <= v.TotalLines
            /\ v.Offset <= v.Cursor /\ v.Cursor <= v.Offset + v.Height - 1
            /\ 1 <= v.Offset /\ v.Offset <= LastScreen(v)
       ELSE v.Cursor = 1 /\ v.Offset = 1

\* C11: in every reachable state with TotalLines >= 1 and Height >= 1,
\* VisibleRange() is (Offset, min(Offset+Height-1, TotalLines)) with
\* 1 <= start <= Cursor <= end <= TotalLines and end-start+1 <= Height, and
\* IsVisible(line) is true exactly for start <= line <= end.
C11_VisibleRange ==
    (vp.TotalLines >= 1 /\ vp.Height >= 1) =>
        LET r == VisibleRange(vp)
        IN  /\ r.start = vp.Offset
            /\ r.end = Min(vp.Offset + vp.Height - 1, vp.TotalLines)
            /\ 1 <= r.start /\ r.start <= vp.Cursor
            /\ vp.Cursor <= r.end /\ r.end <= vp.TotalLines
            /\ r.end - r.start + 1 <= vp.Height
            /\ \A line \in (0 - 1)..(MaxLines + MaxHeight + 1) :
                  IsVisible(vp, line) <=>
                      (vp.Offset <= line
                         /\ line <= Min(vp.Offset + vp.Height - 1, vp.TotalLines))

\* A window taller than the file: the end of the range is cut at TotalLines.
C11_Witness ==
    /\ vp.TotalLines >= 2
    /\ vp.Height > vp.TotalLines
    /\ navOp = "Goto"
    /\ vp.Cursor = vp.TotalLines
    /\ VisibleRange(vp).end = vp.TotalLines

\* C12: from a state satisfying the viewport invariant with TotalLines >= 1,
\* Down(n), n >= 1, sets Cursor to min(Cursor+n, TotalLines) and leaves Offset
\* unchanged if the new cursor is < Offset+Height, else sets it to
\* newCursor-Height+1; Up(n), n >= 1, sets Cursor to max(Cursor-n, 1) and
\* Offset to min(Offset, newCursor); Down(n) and Up(n) with n < 1 change nothing.
C12_DownUp ==
    /\ (navOp \in {"Down", "Up"} /\ navArg < 1) => vp = navPre
    /\ (navOp = "Down" /\ navArg >= 1 /\ navPre.TotalLines >= 1
          /\ ViewportInvariant(navPre)) =>
          /\ vp.Cursor = Min(navPre.Cursor + navArg, navPre.TotalLines)
          /\ vp.Offset = IF vp.Cursor < navPre.Offset + navPre.Height
                         THEN navPre.Offset
                         ELSE vp.Cursor - navPre.Height + 1
    /\ (navOp = "Up" /\ navArg >= 1 /\ navPre.TotalLines >= 1
          /\ ViewportInvariant(navPre)) =>
          /\ vp.Cursor = Max(navPre.Cursor - navArg, 1)
          /\ vp.Offset = Min(navPre.Offset, vp.Cursor)

\* A Down that had to scroll: the new cursor is the last row of the window.
C12_Witness ==
    /\ navOp = "Down"
    /\ navArg >= 1
    /\ ViewportInvariant(navPre)
    /\ vp.Cursor = navPre.Cursor + navArg
    /\ vp.Offset = vp.Cursor - vp.Height + 1
    /\ vp.Offset > navPre.Offset

\* C13: from any reachable state, GotoBottom() followed by Down(n), n >= 0,
\* leaves Cursor and Offset as GotoBottom left them, and GotoTop() followed by
\* Up(n), n >= 0, leaves Cursor = 1 and Offset = 1.
C13_BoundaryIdempotence ==
    /\ navOp = "GotoBottom" =>
          \A n \in 0..MaxArg :
              /\ Down(vp, n).Cursor = vp.Cursor
              /\ Down(vp, n).Offset = vp.Offset
    /\ navOp = "GotoTop" =>
          \A n \in 0..MaxArg :
              /\ Up(vp, n).Cursor = 1
              /\ Up(vp, n).Offset = 1

\* The navigation commands, as opposed to New, SetHeight and SetTotalLines.
NavCommands ==
    {"Down", "Up", "PageDown", "PageUp", "HalfPageDown", "HalfPageUp",
     "ScrollDown", "ScrollUp", "Goto", "GotoTop", "GotoBottom", "GotoLineTop",
     "GotoLineMiddle", "GotoLineBottom", "JumpToPercent", "ClickAt"}

\* C14: with TotalLines = 0 every navigation command, with any argument,
\* leaves Cursor = 1 and Offset = 1 and leaves TotalLines and Height unchanged;
\* after a later SetTotalLines(n), n >= 1, the viewport starts at Cursor = 1,
\* Offset = 1.
C14_EmptyViewport ==
    /\ (navOp \in NavCommands /\ navPre.TotalLines = 0) =>
          /\ vp.Cursor = 1
          /\ vp.Offset = 1
          /\ vp.TotalLines = navPre.TotalLines
          /\ vp.Height = navPre.Height
    /\ (navOp = "SetTotalLines" /\ navPre.TotalLines = 0 /\ navArg >= 1) =>
          /\ vp.Cursor = 1
          /\ vp.Offset = 1

\* C15: for any reachable state with TotalLines >= 1 whose Offset equals
\* max(1, TotalLines-Height+1), PageDown applied twice yields the same
\* (Cursor, Offset) as PageDown applied once, and that result has
\* Offset = max(1, TotalLines-Height+1) and Cursor <= TotalLines.
C15_PageDownAtEnd ==
    (navOp = "PageDown" /\ navPre.TotalLines >= 1
       /\ navPre.Offset = LastScreen(navPre)) =>
        /\ PageDown(vp).Cursor = vp.Cursor
        /\ PageDown(vp).Offset = vp.Offset
        /\ vp.Offset = LastScreen(navPre)
        /\ vp.Cursor <= vp.TotalLines

\* PageDown on the last screen of a file longer than the window, with the
\* cursor not yet on the last line.
C15_Witness ==
    /\ navOp = "PageDown"
    /\ navPre.TotalLines > navPre.Height
    /\ navPre.Height >= 2
    /\ navPre.Offset = LastScreen(navPre)
    /\ navPre.Cursor < navPre.TotalLines
    /\ vp.Cursor = vp.TotalLines

\* C16: after PageDown from any reachable state with TotalLines >= 1, the
\* cursor is on the first line of the new view: Cursor = Offset.
C16_PageDownCursorFirst ==
    (navOp = "PageDown" /\ navPre.TotalLines >= 1) => vp.Cursor = vp.Offset

\* C17: after PageUp from a state satisfying the viewport invariant with
\* TotalLines >= 1, Offset = max(1, oldOffset - Height) and the cursor is on
\* the last line of the new view: Cursor = min(Offset+Height-1, TotalLines).
C17_PageUp ==
    (navOp = "PageUp" /\ navPre.TotalLines >= 1 /\ ViewportInvariant(navPre)) =>
        /\ vp.Offset = Max(1, navPre.Offset - navPre.Height)
        /\ vp.Cursor = Min(vp.Offset + vp.Height - 1, vp.TotalLines)

\* A PageUp that could not go back a whole screen: the offset stops at 1 and
\* the cursor lands on the last row of the window.
C17_Witness ==
    /\ navOp = "PageUp"
    /\ ViewportInvariant(navPre)
    /\ navPre.TotalLines > navPre.Height
    /\ navPre.Height >= 2
    /\ navPre.Offset > 1
    /\ navPre.Offset - navPre.Height < 1
    /\ vp.Offset = 1
    /\ vp.Cursor = vp.Height

\* C18: from a state satisfying the viewport invariant, ScrollDown(n), n >= 1,
\* sets Offset to min(Offset+n, max(1, TotalLines-Height+1)) and ScrollUp(n),
\* n >= 1, sets Offset to max(Offset-n, 1), wherever the cursor is inside the
\* window.
C18_ScrollShiftsView ==
    /\ (navOp = "ScrollDown" /\ navArg >= 1 /\ ViewportInvariant(navPre)) =>
          vp.Offset = Min(navPre.Offset + navArg, LastScreen(navPre))
    /\ (navOp = "ScrollUp" /\ navArg >= 1 /\ ViewportInvariant(navPre)) =>
          vp.Offset = Max(navPre.Offset - navArg, 1)

\* C19: from a state satisfying the viewport invariant, ScrollDown(n) and
\* ScrollUp(n), for any integer n, leave Cursor, TotalLines and Height as they
\* were; only Offset may change.
C19_ScrollKeepsCursor ==
    (navOp \in {"ScrollDown", "ScrollUp"} /\ ViewportInvariant(navPre)) =>
        /\ vp.Cursor = navPre.Cursor
        /\ vp.TotalLines = navPre.TotalLines
        /\ vp.Height = navPre.Height

\* A ScrollDown that moved the view under a cursor that stayed.
C19_Witness ==
    /\ navOp = "ScrollDown"
    /\ navArg >= 1
    /\ ViewportInvariant(navPre)
    /\ vp.Offset > navPre.Offset
    /\ vp.Cursor = navPre.Cursor

\* Half a screen, max(1, Height/2), for Height >= 1.
HalfStep(v) == Max(1, v.Height \div 2)

\* C20: from a state satisfying the viewport invariant with
\* Offset + max(1, Height/2) <= max(1, TotalLines-Height+1), HalfPageDown
\* increases Cursor and Offset by exactly max(1, Height/2), leaving
\* CursorRelative() unchanged, and HalfPageUp after it restores the original
\* Cursor and Offset.
C20_HalfPage ==
    (navOp = "HalfPageDown" /\ ViewportInvariant(navPre)
       /\ navPre.Offset + HalfStep(navPre) <= LastScreen(navPre)) =>
        /\ vp.Cursor = navPre.Cursor + HalfStep(navPre)
        /\ vp.Offset = navPre.Offset + HalfStep(navPre)
        /\ CursorRelative(vp) = CursorRelative(navPre)
        /\ HalfPageUp(vp).Cursor = navPre.Cursor
        /\ HalfPageUp(vp).Offset = navPre.Offset

\* A half page of more than one line, with the cursor inside the window.
C20_Witness ==
    /\ navOp = "HalfPageDown"
    /\ ViewportInvariant(navPre)
    /\ navPre.Offset + HalfStep(navPre) <= LastScreen(navPre)
    /\ HalfStep(navPre) >= 2
    /\ CursorRelative(navPre) >= 1
    /\ vp.Offset = navPre.Offset + 2

\* C21: from a state satisfying the viewport invariant with TotalLines >= 1,
\* GotoLineTop sets Cursor = Offset, GotoLineMiddle sets
\* Cursor = min(Offset + Height/2, TotalLines) with integer division, and
\* GotoLineBottom sets Cursor = min(Offset+Height-1, TotalLines).
C21_GotoLine ==
    (navPre.TotalLines >= 1 /\ ViewportInvariant(navPre)) =>
        /\ navOp = "GotoLineTop" => vp.Cursor = navPre.Offset
        /\ navOp = "GotoLineMiddle" =>
              vp.Cursor = Min(navPre.Offset + (navPre.Height \div 2),
                              navPre.TotalLines)
        /\ navOp = "GotoLineBottom" =>
              vp.Cursor = Min(navPre.Offset + navPre.Height - 1,
                              navPre.TotalLines)

\* M in a window of odd height, scrolled down, moving the cursor to the
\* middle row.
C21_Witness ==
    /\ navOp = "GotoLineMiddle"
    /\ ViewportInvariant(navPre)
    /\ navPre.Height = 3
    /\ navPre.Offset >= 2
    /\ navPre.Cursor # navPre.Offset + 1
    /\ vp.Cursor = navPre.Offset + 1
    /\ vp.Cursor < vp.TotalLines

\* C22: from a state satisfying the viewport invariant with TotalLines >= 1,
\* ClickAt(r), for any integer r, sets Cursor to
\* min(Offset + min(max(r,0), Height-1), TotalLines): a click below the last
\* row selects the last visible line, a negative row the first visible line.
C22_ClickAt ==
    (navOp = "ClickAt" /\ navPre.TotalLines >= 1 /\ ViewportInvariant(navPre)) =>
        /\ vp.Cursor = Min(navPre.Offset + Min(Max(navArg, 0), navPre.Height - 1),
                           navPre.TotalLines)
        /\ navArg >= navPre.Height => vp.Cursor = VisibleRange(navPre).end
        /\ navArg < 0 => vp.Cursor = VisibleRange(navPre).start

\* A click below the last row of a window that does not reach the end of the
\* file.
C22_Witness ==
    /\ navOp = "ClickAt"
    /\ ViewportInvariant(navPre)
    /\ navArg >= navPre.Height
    /\ navPre.Offset + navPre.Height - 1 < navPre.TotalLines
    /\ navPre.Cursor < navPre.Offset + navPre.Height - 1
    /\ vp.Cursor = navPre.Offset + navPre.Height - 1

(***************************************************************************)
(* Claims about JumpToPercent, checked for files of up to MaxPercentLines  *)
(* lines.                                                                  *)
(***************************************************************************)
\* C23 as stated: JumpToPercent(0) moves the cursor to line 1, for every
\* TotalLines >= 1 and Height >= 1.
C23_PercentZeroLineOne ==
    (navOp = "JumpToPercent" /\ navArg = 0
       /\ navPre.TotalLines >= 1 /\ navPre.Height >= 1) =>
        vp.Cursor = 1

\* C23, amended: JumpToPercent(0) is JumpToPercent(1); for every
\* TotalLines >= 1 and Height >= 1 it moves the cursor to
\* max(1, TotalLines/100), which is line 1 exactly when TotalLines < 200.
C23_PercentZeroIsOnePercent ==
    (navOp = "JumpToPercent" /\ navArg = 0
       /\ navPre.TotalLines >= 1 /\ navPre.Height >= 1) =>
        /\ vp.Cursor = Max(1, navPre.TotalLines \div 100)
        /\ vp.Cursor = JumpToPercent(navPre, 1).Cursor
        /\ vp.Cursor = 1 <=> navPre.TotalLines < 200

\* JumpToPercent(0) in a file long enough for one percent to be two lines.
C23_Witness ==
    /\ navOp = "JumpToPercent"
    /\ navArg = 0
    /\ navPre.TotalLines >= 200
    /\ navPre.Height >= 1
    /\ vp.Cursor = 2

\* C24: for every TotalLines >= 1, JumpToPercent(p) with p >= 100 places the
\* cursor exactly on line TotalLines, and JumpToPercent(p) for any integer p
\* never yields a cursor outside [1, TotalLines].
C24_PercentRange ==
    (navOp = "JumpToPercent" /\ navPre.TotalLines >= 1) =>
        /\ navArg >= 100 => vp.Cursor = navPre.TotalLines
        /\ 1 <= vp.Cursor
        /\ vp.Cursor <= navPre.TotalLines

\* A percent above 100 in a file whose length is no multiple of 100.
C24_Witness ==
    /\ navOp = "JumpToPercent"
    /\ navArg > 100
    /\ navPre.TotalLines > 100
    /\ navPre.TotalLines < 200
    /\ navPre.Cursor = 1
    /\ vp.Cursor = vp.TotalLines

\* C25: for every TotalLines >= 1 and all p1 < p2 in [1,100], the cursor
\* after JumpToPercent(p1) is <= the cursor after JumpToPercent(p2), each
\* applied to the same starting state.
C25_PercentMonotone ==
    (navOp = "JumpToPercent" /\ navArg \in 1..100 /\ navPre.TotalLines >= 1) =>
        \A p2 \in (navArg + 1)..100 :
            vp.Cursor <= JumpToPercent(navPre, p2).Cursor

\* Two percents one apart that land on different lines.
C25_Witness ==
    /\ navOp = "JumpToPercent"
    /\ navArg \in 1..99
    /\ navPre.TotalLines > 100
    /\ vp.Cursor > 1
    /\ vp.Cursor < JumpToPercent(navPre, navArg + 1).Cursor

(***************************************************************************)
(* Claims about func main.                                                 *)
(***************************************************************************)
\* C26: a memory-mapped reader obtained by Open is closed exactly once on
\* every path: never more often than it was opened; by Open itself when
\* reading or offset construction fails, in which case no Index is returned;
\* otherwise by Index.Close before the process exits, also when the TUI
\* program returned an error.
C26_ReleasedExactlyOnce ==
    /\ closes <= opened
    /\ (ret.op = "Open" /\ ret.err # Nil) => (idx = NilIndex /\ closes = opened)
    /\ pc = "exited" => closes = opened

(***************************************************************************)
(* Claims about the pool.                                                  *)
(***************************************************************************)
\* C27: on a pool with a non-nil reset, Put(x) calls reset exactly once, on
\* x itself, before x becomes available to any Get; so every value a Get
\* returns is either freshly created by init or has been reset since it was
\* last handed out.
C27_ResetBeforeReuse ==
    gp.reset # Nil =>
        /\ \A x \in putting \cup gp.pool :
              bufs[x].resets = 1 /\ ~bufs[x].dirty
        /\ \A x \in held : bufs[x].resets = 0
        /\ poolRet.op = "Get" =>
              /\ poolRet.fresh \/ poolRet.resets = 1
              /\ ~poolRet.dirty

\* A Get that returns a value an earlier caller wrote into and Put back.
C27_Witness ==
    /\ gp.reset # Nil
    /\ poolRet.op = "Get"
    /\ ~poolRet.fresh
    /\ poolRet.wrote
    /\ poolRet.resets = 1
    /\ ~poolRet.dirty

(***************************************************************************)
(* Claims about the TUI's keys.  msg is the message Update handled last,   *)
(* mPre the Model it was handed, m and cmd what it returned.               *)
(***************************************************************************)
KeyHandled(key) == msg = KeyMsg(key)

\* C28: in every state of the Model, handling a 'q' key sets quitting and
\* returns the quit command.
C28_QuitImmediately ==
    KeyHandled("q") => (m.quitting /\ cmd = TeaQuit)

\* C29: Esc with help hidden and no prompt up opens the prompt, does not
\* quit and returns no command; with the prompt up, y and Y set quitting and
\* return the quit command, and every other key only clears the prompt: it
\* returns no command and changes nothing else of the Model.
C29_ExitConfirmation ==
    /\ (KeyHandled("esc") /\ ~mPre.showHelp /\ ~mPre.confirmExit)
            => (m.confirmExit /\ m.quitting = mPre.quitting /\ ~m.quitting
                /\ cmd = Nil)
    /\ (msg.type = "KeyMsg" /\ mPre.confirmExit /\ msg.key \in {"y", "Y"})
            => (m.quitting /\ cmd = TeaQuit)
    /\ (msg.type = "KeyMsg" /\ mPre.confirmExit /\ msg.key \notin {"y", "Y"})
            => (/\ m = [mPre EXCEPT !.confirmExit = FALSE]
                /\ ~m.quitting
                /\ cmd = Nil)

\* The prompt was up and a key that moves the cursor was dropped.
C29_Witness ==
    /\ KeyHandled("down")
    /\ mPre.confirmExit
    /\ ~m.confirmExit
    /\ mPre.viewport.Cursor < mPre.viewport.TotalLines
    /\ m.viewport = mPre.viewport

\* C30: Esc with help shown and no prompt up hides help and neither opens
\* the prompt nor quits; the prompt is only ever opened by an Esc handled
\* while help was hidden.
C30_EscClosesHelpFirst ==
    /\ (KeyHandled("esc") /\ mPre.showHelp /\ ~mPre.confirmExit)
            => (~m.showHelp /\ ~m.confirmExit /\ ~m.quitting)
    /\ (m.confirmExit /\ ~mPre.confirmExit)
            => (KeyHandled("esc") /\ ~mPre.showHelp)

\* Esc has closed help.
C30_Witness ==
    /\ KeyHandled("esc")
    /\ mPre.showHelp
    /\ ~mPre.confirmExit
    /\ ~m.showHelp

(***************************************************************************)
(* Claims about clamp and about the direction of the commands.             *)
(***************************************************************************)
\* C34: for Height >= 1 and TotalLines >= 1, clamp leaves a Viewport that
\* satisfies the invariant as it is, and for any integer Cursor and Offset
\* clamping the clamped Viewport again changes nothing.
C34_ClampIdentityIdempotent ==
    navOp = "clamp" =>
        /\ ViewportInvariant(navPre) => vp = navPre
        /\ clamp(vp) = vp

\* clamp has scrolled by more than one line to reveal the cursor.
C34_Witness ==
    /\ navOp = "clamp"
    /\ navPre.Cursor >= navPre.Offset + navPre.Height + 1
    /\ navPre.Cursor <= navPre.TotalLines
    /\ navPre.Offset >= 1
    /\ vp.Offset > navPre.Offset + 1

\* The commands of C37: a target inside the window.
InWindowCommand ==
    \/ navOp \in {"GotoLineTop", "GotoLineMiddle", "GotoLineBottom", "ClickAt"}
    \/ navOp = "Goto" /\ IsVisible(navPre, navArg)

\* C37: from a state satisfying the invariant with TotalLines >= 1,
\* GotoLineTop, GotoLineMiddle, GotoLineBottom, ClickAt(r) for any r and
\* Goto(line) for a visible line leave Offset, Height and TotalLines as they
\* were.
C37_InWindowNoScroll ==
    (InWindowCommand /\ ViewportInvariant(navPre) /\ navPre.TotalLines >= 1)
        => /\ vp.Offset = navPre.Offset
           /\ vp.Height = navPre.Height
           /\ vp.TotalLines = navPre.TotalLines

\* GotoLineBottom has moved the cursor down inside a scrolled window.
C37_Witness ==
    /\ navOp = "GotoLineBottom"
    /\ ViewportInvariant(navPre)
    /\ navPre.Offset > 1
    /\ vp.Cursor > navPre.Cursor
    /\ vp.Offset = navPre.Offset

DirectionPre == ViewportInvariant(navPre) /\ navPre.TotalLines >= 1

\* C38: from a state satisfying the invariant with TotalLines >= 1, Down(n),
\* PageDown and HalfPageDown never decrease Cursor or Offset, and Up(n),
\* PageUp and HalfPageUp never increase Cursor or Offset.
C38_DirectionMonotone ==
    /\ (DirectionPre /\ navOp \in {"Down", "PageDown", "HalfPageDown"})
            => (vp.Cursor >= navPre.Cursor /\ vp.Offset >= navPre.Offset)
    /\ (DirectionPre /\ navOp \in {"Up", "PageUp", "HalfPageUp"})
            => (vp.Cursor <= navPre.Cursor /\ vp.Offset <= navPre.Offset)

\* C38, amended: as C38 for Down(n), PageDown, HalfPageDown, Up(n) and
\* HalfPageUp.  PageUp never increases Offset and puts the cursor on the last
\* line of the new view, min(Offset+Height-1, TotalLines); that line is
\* below the old cursor exactly when the old Offset is at most Height (the
\* new Offset is 1) and the old cursor is above line min(Height,
\* TotalLines); in every other case PageUp does not increase Cursor.
C38_DirectionMonotoneButPageUp ==
    /\ (DirectionPre /\ navOp \in {"Down", "PageDown", "HalfPageDown"})
            => (vp.Cursor >= navPre.Cursor /\ vp.Offset >= navPre.Offset)
    /\ (DirectionPre /\ navOp \in {"Up", "HalfPageUp"})
            => (vp.Cursor <= navPre.Cursor /\ vp.Offset <= navPre.Offset)
    /\ (DirectionPre /\ navOp = "PageUp")
            => /\ vp.Offset <= navPre.Offset
               /\ vp.Cursor = Min(vp.Offset + vp.Height - 1, vp.TotalLines)
               /\ (vp.Cursor > navPre.Cursor)
                     <=> (/\ navPre.Offset <= navPre.Height
                          /\ navPre.Cursor < Min(navPre.Height, navPre.TotalLines))

\* PageUp on the first screen has moved the cursor down.
C38_Witness ==
    /\ navOp = "PageUp"
    /\ DirectionPre
    /\ navPre.Offset = 1
    /\ vp.Cursor > navPre.Cursor

(***************************************************************************)
(* Claims about counts, gg and G, and about rendering.                     *)
(***************************************************************************)
\* The count the pending digits of the Model before the key stand for.
PendingCount == DecimalValue(mPre.pendingNumber)

\* The Model before a G that follows the digits of a count n >= 1.
CountThenG ==
    /\ KeyHandled("G")
    /\ ~mPre.confirmExit
    /\ mPre.pendingNumber # <<>>
    /\ PendingCount >= 1

\* The Model before the second g of a g g that follows the digits of a
\* count n >= 1.
CountThenGG ==
    /\ KeyHandled("g")
    /\ ~mPre.confirmExit
    /\ mPre.lastG
    /\ mPre.pendingNumber # <<>>
    /\ PendingCount >= 1

\* G, and the second g of g g, with no pending count.
PlainGotos ==
    /\ (KeyHandled("G") /\ ~mPre.confirmExit /\ mPre.pendingNumber = <<>>)
            => /\ m.viewport.Cursor = LineCount(idx)
               /\ m.pendingNumber = <<>>
    /\ (KeyHandled("g") /\ ~mPre.confirmExit /\ mPre.lastG
            /\ mPre.pendingNumber = <<>>)
            => /\ m.viewport.Cursor = 1
               /\ m.pendingNumber = <<>>

\* C32: a count n >= 1 followed by G, or by g g, moves the cursor to line
\* min(n, LineCount); G with no pending count moves it to the last line, g g
\* with no pending count to line 1; the pending count is empty afterwards.
C32_CountedGoto ==
    /\ (CountThenG \/ CountThenGG)
            => /\ m.viewport.Cursor = Min(PendingCount, LineCount(idx))
               /\ m.pendingNumber = <<>>
    /\ PlainGotos

\* What holds of counts: C32 for a count that fits an int; a count that does
\* not is discarded, G leaving the viewport as it was and g g going to line 1.
CountedGotoInRange ==
    /\ ((CountThenG \/ CountThenGG) /\ ~OutOfRange(mPre.pendingNumber))
            => /\ m.viewport.Cursor = Min(PendingCount, LineCount(idx))
               /\ m.pendingNumber = <<>>
    /\ (CountThenG /\ OutOfRange(mPre.pendingNumber))
            => /\ m.viewport = mPre.viewport
               /\ m.pendingNumber = <<>>
    /\ (CountThenGG /\ OutOfRange(mPre.pendingNumber))
            => /\ m.viewport.Cursor = 1
               /\ m.pendingNumber = <<>>
    /\ PlainGotos

\* C33: in every reachable state viewport.TotalLines is idx.LineCount(), and
\* every line number View passed to GetLine, the visible range and the
\* cursor line, lies in [1, LineCount()]: GetLine returned no ErrInvalidLine.
C33_RenderValidLines ==
    /\ m.viewport.TotalLines = LineCount(idx)
    /\ view.lookups \subseteq 1..LineCount(idx)
    /\ ~view.invalid

\* View has rendered a scrolled window of two lines with the cursor on the
\* second.
C33_Witness ==
    /\ msg = ViewCall
    /\ m.viewport.Offset = 2
    /\ m.viewport.Cursor = 3
    /\ view.lookups = {2, 3}

\* The keys handleKey has a case for, other than the digits, g and G.
CountDiscardingKeys ==
    {"q", "esc", "f1", "?", "up", "down", "pgup", "pgdown", "home", "end",
     "k", "j", "ctrl+e", "ctrl+y", "ctrl+b", "ctrl+f", "ctrl+u", "ctrl+d",
     "H", "M", "L", "ctrl+w", ">", "<", "h", "l"}

\* C40: a handled key other than a digit, g or G discards the pending
\* count.
C40_CountDiscarded ==
    (msg.type = "KeyMsg" /\ ~mPre.confirmExit /\ msg.key \in CountDiscardingKeys)
        => m.pendingNumber = <<>>

(***************************************************************************)
(* Claims about resizing the panes.                                        *)
(***************************************************************************)
ResizeKeyHandled == msg.type = "KeyMsg" /\ msg.key \in {"<", ">"}

\* What < and > do in resize mode: one column, down to 40 and up to
\* width-40, and the mode stays on.
ResizeStep ==
    /\ KeyHandled("<") =>
            m.leftWidth = IF mPre.leftWidth > 40
                          THEN mPre.leftWidth - 1 ELSE mPre.leftWidth
    /\ KeyHandled(">") =>
            m.leftWidth = IF mPre.leftWidth < mPre.width - 40
                          THEN mPre.leftWidth + 1 ELSE mPre.leftWidth
    /\ m.resizeMode

\* C31: a key changes leftWidth only if it is < or > handled in resize mode;
\* in resize mode < takes one column off leftWidth when leftWidth > 40 and >
\* adds one when leftWidth < width-40, and resize mode stays on.
C31_ResizeGating ==
    /\ (msg.type = "KeyMsg" /\ m.leftWidth # mPre.leftWidth)
            => (ResizeKeyHandled /\ mPre.resizeMode)
    /\ (ResizeKeyHandled /\ mPre.resizeMode) => ResizeStep

\* C31, amended: as C31, < and > resizing in resize mode while no exit
\* prompt is up; with the prompt up they only cancel the prompt.
C31_ResizeGatingNoPrompt ==
    /\ (msg.type = "KeyMsg" /\ m.leftWidth # mPre.leftWidth)
            => (ResizeKeyHandled /\ mPre.resizeMode /\ ~mPre.confirmExit)
    /\ (ResizeKeyHandled /\ mPre.resizeMode /\ ~mPre.confirmExit) => ResizeStep
    /\ (ResizeKeyHandled /\ mPre.resizeMode /\ mPre.confirmExit)
            => m = [mPre EXCEPT !.confirmExit = FALSE]

\* < has taken the left pane to 40 columns, where it stops.
C31_Witness ==
    /\ KeyHandled("<")
    /\ mPre.resizeMode
    /\ ~mPre.confirmExit
    /\ mPre.leftWidth = 41
    /\ m.leftWidth = 40
    /\ m.resizeMode

\* C35: a resizeTimeoutMsg ends resize mode only if resizeTimeout has
\* passed since every key that scheduled a tick not yet delivered, the most
\* recent Ctrl+w, < or > among them; it never changes leftWidth or the
\* viewport.
C35_StaleTimeoutIgnored ==
    [][DoResizeTimeout =>
          /\ m'.leftWidth = m.leftWidth
          /\ m'.viewport = m.viewport
          /\ (m.resizeMode /\ ~m'.resizeMode)
                => \A t \in ticks : now - t >= resizeTimeout]_vars

\* A timeout scheduled before the last key has been delivered and ignored.
C35_Witness ==
    /\ msg = ResizeTimeoutMsg
    /\ mPre.resizeMode
    /\ m.resizeMode
    /\ now - m.resizeTimer < resizeTimeout
    /\ ticks # {}

\* C36: if from some point on no key arrives, resize mode ends, every tick
\* being delivered resizeTimeout or more after it was scheduled.
C36_ResizeModeEnds ==
    []<><<DoResizeKey>>_vars \/ <>[](~m.resizeMode)

\* The timeout of the last key has ended resize mode.
C36_Witness ==
    /\ msg = ResizeTimeoutMsg
    /\ mPre.resizeMode
    /\ ~m.resizeMode
    /\ ticks = {}

(***************************************************************************)
(* Claims about FormatPretty and the buffer pool.                          *)
(***************************************************************************)
\* The callers that hold a buffer: past Get and not yet in Put's store.
Holding(c) == calls[c].pc \in {"indent", "put"}

\* C39: a call of FormatPretty takes at most one buffer and has put it back
\* exactly once when it returns, with or without a formatting error; a call
\* rejected for an empty or invalid input takes none; once every call has
\* returned no buffer is out; no buffer is held by two calls at a time.
C39_PoolBalance ==
    /\ \A c \in Callers :
          /\ calls[c].gets <= 1
          /\ calls[c].puts <= calls[c].gets
          /\ calls[c].pc \in {"return", "returned"} =>
                /\ calls[c].puts = calls[c].gets
                /\ calls[c].gets = IF calls[c].raw \in {"empty", "invalid"}
                                   THEN 0 ELSE 1
    /\ (\A c \in Callers : calls[c].pc \in {"idle", "returned"})
            => (held = {} /\ putting = {})
    /\ \A c, d \in Callers :
          (c # d /\ Holding(c) /\ Holding(d)) => calls[c].buf # calls[d].buf
    /\ held = {calls[c].buf : c \in {d \in Callers : Holding(d)}}

\* A call that failed to format has put its buffer back, and the other
\* caller now holds that buffer.
C39_Witness ==
    \E c, d \in Callers :
        /\ calls[c].pc = "returned"
        /\ calls[c].err = ErrFormat
        /\ calls[c].puts = 1
        /\ Holding(d)
        /\ calls[d].buf = calls[c].buf

====
